---- MODULE Spec2Model ----
(***************************************************************************)
(* A model of the display / input core of Game-Theory-Bot:                 *)
(*   joystick_driver.py  Joystick  (click detector, direction classifier)  *)
(*   ui_manager.py       UIManager (draw_menu and the text helpers)        *)
(*   display_driver.py   ST7789    (set_window, fill_rect, bus framing)    *)
(* Each component has its own specification over the shared variables:     *)
(*   SpecClick  the button signal, the clock and check_for_single_click    *)
(*   SpecDir    the stick position, the clock and get_direction            *)
(*   SpecMenu   calls of UIManager.draw_menu and the driver calls it makes *)
(*   SpecFill   calls of ST7789.fill_rect and the bus transactions         *)
(*   SpecCal    Joystick.calibrate and the polls around it                 *)
(*   SpecFault  ST7789.fill_rect on a bus whose writes can raise           *)
(*   SpecUI     the other screens of UIManager                             *)
(* and SpecConstruct, SpecDraw, SpecText, SpecLine for the rest of ST7789. *)
(***************************************************************************)
EXTENDS Integers, Sequences, FiniteSets, TLC

VARIABLES
    \* ---- the clock (time.ticks_ms) and the button pin ----
    now,                           \* time.ticks_ms(), ms since construction
    step,                          \* the granularity of the clock in this run, ms
    btn,                           \* self.button.value(): 0 pressed, 1 released
    \* ---- Joystick: button fields ----
    last_button_state,             \* self._last_button_state
    last_button_change_time,       \* self._last_button_change_time
    button_down_start_time,        \* self._button_down_start_time
    button_state_for_click,        \* self._button_state_for_click: 0 Idle, 1 Pressed
    last_button_value_for_click,   \* self._last_button_value_for_click
    clicked,                       \* the value the last check_for_single_click returned
    \* ---- observations of the button signal and of the polls ----
    nFlips,                        \* number of changes of the button signal so far
    flipT1, flipT2,                \* times of the last-but-one and of the last change
    stAtT1, stAtT2,                \* detector phase at those two changes
    cA, cB,                        \* polls that returned True since flipT2 / since flipT1
    lastPoll,                      \* time of the last poll (of construction before one)
    slow,                          \* some gap between polls was >= the debounce window
    clickTs,                       \* <<t1, t2>>: times of the last-but-one and of the last
                                   \* poll that returned True (-1: none)
    ref,                           \* the click fields of a second Joystick on the same pin,
                                   \* polled by check_for_single_click at the same times
                                   \* and never asked is_button_down
    down,                          \* the value the last is_button_down returned and when
                                   \* it was called (t = -1: never)
    \* ---- Joystick: stick fields ----
    x_val, y_val,                  \* adc_x.read(), adc_y.read()
    x_center, y_center,            \* self.x_center, self.y_center
    last_direction,                \* self._last_direction
    last_direction_time,           \* self._last_direction_time
    dirRet,                        \* the value the last get_direction returned
    dirClass,                      \* the classification the last get_direction computed
    prevClass,                     \* the classification the poll before it computed
    lastMode,                      \* "none", or the mode of the last poll: "edge", "repeat"
    fromClass,                     \* the last classification polled before the stick last moved
    heldPolls,                     \* polls since the stick last moved
    heldEmits,                     \* non-center results among those polls
    heldEdgeOnly,                  \* all of those polls were made with allow_repeat=False
    pollT,                         \* time of the last get_direction poll
    emitT,                         \* time of the last poll that returned a direction (-1: none)
    prevEmitT,                     \* emitT as it was before the last poll
    onlyRepeat,                    \* every poll so far was made with allow_repeat=True
    calRuns,                       \* number of calibrate calls so far
    calWindow,                     \* calibration_time_s * 1000 of the last calibrate (-1: none)
    calXs, calYs,                  \* the x and y readings that calibrate call sampled
    calPrevCenters,                \* <<x_center, y_center>> when that call was made
    \* ---- UIManager ----
    last_menu_state,               \* self._last_menu_state
    ops,                           \* calls made to self.screen by the last UI call
    menuArgs,                      \* arguments of the last draw_menu call
    prevMenuArgs,                  \* arguments of the draw_menu call before it
    menuStateBefore,               \* self._last_menu_state when that call was made
    lineArgs,                      \* arguments of the last UI call when that was a
                                   \* display_text_line, else None
    uiCall,                        \* name and arguments of the last UI call other than
                                   \* draw_menu (fn "none" before one)
    \* ---- ST7789 ----
    rotation,                      \* self.rotation
    bus,                           \* bus writes of the last driver operation, in order
    winCalls,                      \* set_window calls of the last driver operation
    rectArgs,                      \* arguments of the last fill_rect call
    fault,                         \* None, or for the last fill_rect made on a bus that
                                   \* may fail: which spi.write raised (0: none), the
                                   \* writes attempted, whether the call raised
    pins,                          \* which of reset, dc, cs, backlight were given to __init__
    pc,                            \* statements of ST7789.__init__ executed so far
    oversleep,                     \* how much longer than asked a time.sleep_ms takes
    wire,                          \* pin writes and SPI writes since construction began or,
                                   \* once constructed, of the last pixel, set_window or text
                                   \* call (the bus writes of a fill_rect are in `bus`)
    opArgs,                        \* the last pixel / set_window / text call and its arguments
    \* ---- the games ----
    te,                            \* the GameTrustEvolution instance and what main.py knows of it
    ps,                            \* the GamePointsShowdown instance, its QLearningAgent
    au                             \* the AuctionGame instance

clickVars == <<btn, last_button_state, last_button_change_time, button_down_start_time,
               button_state_for_click, last_button_value_for_click, clicked,
               nFlips, flipT1, flipT2, stAtT1, stAtT2, cA, cB, lastPoll, slow,
               clickTs, ref, down>>
calVars   == <<calRuns, calWindow, calXs, calYs, calPrevCenters>>
dirVars   == <<x_val, y_val, x_center, y_center, last_direction, last_direction_time,
               dirRet, dirClass, prevClass, lastMode, fromClass, heldPolls, heldEmits,
               heldEdgeOnly, pollT, emitT, prevEmitT, onlyRepeat, calVars>>
menuVars  == <<last_menu_state, ops, menuArgs, prevMenuArgs, menuStateBefore, lineArgs, uiCall>>
drvVars   == <<pins, pc, oversleep, wire, opArgs>>
dispVars  == <<rotation, bus, winCalls, rectArgs, fault, drvVars>>
gameVars  == <<te, ps, au>>
vars      == <<now, step, clickVars, dirVars, menuVars, dispVars, gameVars>>

(***************************************************************************)
(* Bounds of the model.                                                    *)
(***************************************************************************)
MaxTicks == 16          \* the clock runs to MaxTicks * 25 ms
MaxFlips == 3           \* changes of the button signal in one run
MaxHeldPolls == 3       \* get_direction polls between two moves of the stick
MaxOversleep == 3       \* ms a time.sleep_ms may take beyond the time asked for
MaxSamples == 3         \* passes of the sampling loop in one calibrate call
MaxAuctions == 3        \* auctions begun in one run of the auction game
MaxSelectMoves == 1     \* moves of the selection in the item lists in one such run
MaxCalRuns == 2         \* calibrate calls in one run

\* The clock advances in steps of 20 ms or of 25 ms, fixed per run (the polling
\* loops sleep 20 to 30 ms). On the 25 ms grid a difference can equal the debounce
\* window (50) and the click ceiling (300) exactly; on the 20 ms grid there are
\* two poll gaps below the debounce window (20 and 40).
Steps == {20, 25}
MaxTime == MaxTicks * 25

(***************************************************************************)
(* Program constants.                                                      *)
(***************************************************************************)
debounce_ms == 50
click_threshold_ms == 300
direction_repeat_delay_ms == 150
X_CENTER == 2048
Y_CENTER == 2048
threshold == 800
SCREEN_WIDTH == 240
SCREEN_HEIGHT == 320
chunk_size == 512
char_width_eng == 8
char_height == 16
line_spacing == 4
\* ST7789 command opcodes
SWRESET == 1
SLPOUT == 17
DISPON == 41
CASET == 42
RASET == 43
RAMWR == 44
MADCTL == 54
COLMOD == 58
\* the RGB565 values of ST7789 that UIManager uses
WHITE == 0
YELLOW == 31
GREEN == 63519
BLUE == 65504
BLACK == 65535

None == <<>>
Some(v) == <<v>>
Min(a, b) == IF a < b THEN a ELSE b
Max(a, b) == IF a > b THEN a ELSE b

\* time.ticks_diff(a, b): the clock of the model never wraps
ticks_diff(a, b) == a - b

(***************************************************************************)
(* Joystick.__init__ : the button and stick fields after construction.     *)
(***************************************************************************)
InitButton ==
    /\ btn \in {0, 1}
    /\ last_button_state = btn
    /\ last_button_change_time = now
    /\ button_down_start_time = 0
    /\ button_state_for_click = 0
    /\ last_button_value_for_click = 1
    /\ clicked = FALSE
    /\ nFlips = 0 /\ flipT1 = -1 /\ flipT2 = -1 /\ stAtT1 = 0 /\ stAtT2 = 0
    /\ cA = 0 /\ cB = 0 /\ lastPoll = now /\ slow = FALSE
    /\ clickTs = <<-1, -1>>
    /\ ref = [state |-> 0, change |-> now, start |-> 0, value |-> 1, clicked |-> FALSE]
    /\ down = [ret |-> FALSE, t |-> -1]

InitStick ==
    /\ x_val = X_CENTER /\ y_val = Y_CENTER
    /\ x_center = X_CENTER /\ y_center = Y_CENTER
    /\ last_direction = "center"
    /\ last_direction_time = now
    /\ dirRet = "center" /\ dirClass = "center" /\ prevClass = "center"
    /\ lastMode = "none" /\ fromClass = "center"
    /\ heldPolls = 0 /\ heldEmits = 0 /\ heldEdgeOnly = TRUE
    /\ pollT = now /\ emitT = -1 /\ prevEmitT = -1 /\ onlyRepeat = TRUE
    /\ calRuns = 0 /\ calWindow = -1 /\ calXs = <<>> /\ calYs = <<>>
    /\ calPrevCenters = <<X_CENTER, Y_CENTER>>

(***************************************************************************)
(* Joystick.check_for_single_click                                         *)
(***************************************************************************)
\* line 165-167: Idle, the pin went from released to pressed, debounce over
\* a press is accepted without waiting for the debounce window
PressAcceptedNoDebounce(state, value, lastValue, t, lastChange) ==
    /\ state = 0
    /\ value = 0 /\ lastValue = 1

PressAccepted(state, value, lastValue, t, lastChange) ==
    /\ state = 0
    /\ value = 0 /\ lastValue = 1
    /\ ticks_diff(t, lastChange) > debounce_ms

\* a release is accepted without waiting for the debounce window
ReleaseAcceptedNoDebounce(state, value, t, lastChange) ==
    /\ state = 1
    /\ value = 1

\* line 171-173: Pressed, the pin reads released, debounce over
ReleaseAccepted(state, value, t, lastChange) ==
    /\ state = 1
    /\ value = 1
    /\ ticks_diff(t, lastChange) > debounce_ms

\* line 175: the press was shorter than the click ceiling
IsClickNoCeiling(t, downStart) == TRUE
IsClick(t, downStart) == ticks_diff(t, downStart) < click_threshold_ms

\* line 177: the phase after an accepted release
PhaseAfterReleaseStays == 0 + 1
PhaseAfterRelease == 0

\* check_for_single_click (line 154-185) on the fields r of the second Joystick
RefPoll(r, current_value, current_time) ==
    LET press   == PressAccepted(r.state, current_value, r.value, current_time, r.change)
        release == ReleaseAccepted(r.state, current_value, current_time, r.change)
    IN [state   |-> IF press THEN 1 ELSE IF release THEN PhaseAfterRelease ELSE r.state,
        start   |-> IF press THEN current_time ELSE r.start,
        change  |-> IF press \/ release THEN current_time ELSE r.change,
        value   |-> current_value,
        clicked |-> release /\ IsClick(current_time, r.start)]

PollDetector ==
    LET current_value == btn
        current_time  == now
        press   == PressAccepted(button_state_for_click, current_value,
                                 last_button_value_for_click, current_time,
                                 last_button_change_time)
        release == ReleaseAccepted(button_state_for_click, current_value,
                                   current_time, last_button_change_time)
        ret     == release /\ IsClick(current_time, button_down_start_time)
        inc     == IF ret THEN 1 ELSE 0
    IN
    /\ button_state_for_click' =
           IF press THEN 1 ELSE IF release THEN PhaseAfterRelease
           ELSE button_state_for_click
    /\ button_down_start_time' =
           IF press THEN current_time ELSE button_down_start_time
    /\ last_button_change_time' =
           IF press \/ release THEN current_time ELSE last_button_change_time
    /\ last_button_value_for_click' = current_value
    /\ clicked' = ret
    \* observations
    /\ cA' = cA + inc /\ cB' = cB + inc
    /\ slow' = (slow \/ current_time - lastPoll >= debounce_ms)
    /\ lastPoll' = current_time
    /\ UNCHANGED <<now, step, gameVars, btn, last_button_state, nFlips, flipT1, flipT2,
                   stAtT1, stAtT2, down>>
    /\ UNCHANGED <<dirVars, menuVars, dispVars>>

\* a poll of the detector alone, and a poll that is also made on the second
\* detector and whose time is recorded when it returns True
CheckForSingleClick == PollDetector /\ UNCHANGED <<ref, clickTs>>
CheckForSingleClickPair ==
    /\ PollDetector
    /\ ref' = RefPoll(ref, btn, now)
    /\ clickTs' = IF clicked' THEN <<clickTs[2], now>> ELSE clickTs

\* is_button_down, line 95-120: a changed pin level is stored at once and restarts
\* the debounce timer; both branches of the timer test return the stored level
IsButtonDown ==
    LET current_time == now
        raw_button_state == btn
        changed == raw_button_state # last_button_state
    IN
    /\ last_button_change_time' = IF changed THEN current_time ELSE last_button_change_time
    /\ last_button_state' = IF changed THEN raw_button_state ELSE last_button_state
    /\ down' = [ret |-> (last_button_state' = 0), t |-> current_time]
    /\ UNCHANGED <<now, step, gameVars, btn, button_down_start_time, button_state_for_click,
                   last_button_value_for_click, clicked, nFlips, flipT1, flipT2,
                   stAtT1, stAtT2, cA, cB, lastPoll, slow, clickTs, ref>>
    /\ UNCHANGED <<dirVars, menuVars, dispVars>>

(***************************************************************************)
(* The environment of the joystick: the clock and the button signal.       *)
(***************************************************************************)
Tick ==
    /\ now + step <= MaxTime
    /\ now' = now + step
    /\ UNCHANGED <<step, gameVars, clickVars, dirVars, menuVars, dispVars>>

\* the button signal changes level; a level lasts a positive time
Flip ==
    /\ nFlips < MaxFlips
    /\ now > flipT2
    /\ btn' = 1 - btn
    /\ nFlips' = nFlips + 1
    /\ flipT1' = flipT2 /\ flipT2' = now
    /\ stAtT1' = stAtT2 /\ stAtT2' = button_state_for_click
    /\ cB' = cA /\ cA' = 0
    /\ UNCHANGED <<now, step, gameVars, last_button_state, last_button_change_time, button_down_start_time,
                   button_state_for_click, last_button_value_for_click, clicked,
                   lastPoll, slow, clickTs, ref, down>>
    /\ UNCHANGED <<dirVars, menuVars, dispVars>>

(***************************************************************************)
(* Claims about the click detector (checked under SpecClick).              *)
(* A press of the signal is the pair of its last two changes: flipT1 the   *)
(* time it went active, flipT2 the time it was released (btn = 1 now).     *)
(***************************************************************************)
HeldMs == flipT2 - flipT1
PressReleased == nFlips >= 2 /\ btn = 1
\* the detector was polled long enough after the release to have accepted it
Settled == lastPoll >= flipT2 + 2 * debounce_ms

\* C1 (as claimed): starting from Idle, a signal held active for more than the
\* debounce window and less than the click ceiling, then released for good, is
\* reported as exactly one click and the detector ends in Idle, whenever every
\* gap between polls is below the debounce window.
C1_ShortPressOneClick ==
    (/\ PressReleased /\ stAtT1 = 0 /\ ~slow
     /\ HeldMs > debounce_ms /\ HeldMs < click_threshold_ms
     /\ Settled)
    => (cB = 1 /\ button_state_for_click = 0)

\* C2 (as claimed): a press whose signal is held active for longer than the click
\* ceiling reports zero clicks (polls faster than the debounce window, detector
\* Idle when the signal went active).
C2_LongHoldNoClick ==
    (PressReleased /\ stAtT1 = 0 /\ ~slow /\ HeldMs > click_threshold_ms)
    => cB = 0

\* C2 (amended): the held duration is the one the detector measures, from the poll
\* that accepted the press to the poll that accepts the release. When a release is
\* accepted the detector goes from Pressed to Idle; if the measured duration is at
\* least the click ceiling that poll returns False; and no poll returns True while
\* the detector stays Pressed.
C2_MeasuredLongHoldNoClick ==
    [][ /\ (button_state_for_click = 1
               /\ last_button_change_time' # last_button_change_time)
            => button_state_for_click' = 0
        /\ (button_state_for_click = 1 /\ button_state_for_click' = 0
               /\ ticks_diff(now, button_down_start_time) >= click_threshold_ms)
            => ~clicked'
        /\ (button_state_for_click = 1 /\ button_state_for_click' = 1)
            => ~clicked'
      ]_vars

\* C2 witness: the release of a press measured at 300 ms or more has just been
\* accepted: the detector is back in Idle and the poll returned False.
C2_Witness ==
    /\ PressReleased
    /\ button_state_for_click = 0
    /\ last_button_change_time = lastPoll
    /\ ticks_diff(last_button_change_time, button_down_start_time) >= click_threshold_ms
    /\ button_down_start_time >= flipT1
    /\ ~clicked /\ cB = 0

\* C3: two changes of the signal less than one debounce window apart produce at
\* most one click in total (counted from the first of the two changes on), for
\* every poll schedule and every phase the detector was in.
C3_BounceAtMostOneClick ==
    (nFlips >= 2 /\ HeldMs < debounce_ms) => cB <= 1

\* C3 witness: a bounce that met the detector in Pressed and produced one click.
C3_Witness ==
    nFlips >= 2 /\ HeldMs < debounce_ms /\ stAtT1 = 1 /\ cB = 1

(***************************************************************************)
(* Joystick.get_direction                                                  *)
(***************************************************************************)
\* line 63-72: the first matching zone, x before y
ClassifyYFirst(x, y, xc, yc) ==
    IF y > yc + threshold THEN "down"
    ELSE IF y < yc - threshold THEN "up"
    ELSE IF x > xc + threshold THEN "right"
    ELSE IF x < xc - threshold THEN "left"
    ELSE "center"
Classify(x, y, xc, yc) ==
    IF x > xc + threshold THEN "right"
    ELSE IF x < xc - threshold THEN "left"
    ELSE IF y > yc + threshold THEN "down"
    ELSE IF y < yc - threshold THEN "up"
    ELSE "center"

\* line 76-82: repeat mode emits a non-center direction when it is new or when
\* the repeat delay has passed since the last emission
RepeatEmitsAlways(cur, last, t, lastTime) == cur # "center"
RepeatEmits(cur, last, t, lastTime) ==
    /\ cur # "center"
    /\ (cur # last \/ ticks_diff(t, lastTime) > direction_repeat_delay_ms)

\* line 89-93: edge mode returns the direction only when it differs from the
\* remembered one
EdgeResult(cur, last) == IF cur # last THEN cur ELSE "center"
\* line 89-90: ... and remembers it
EdgeNextLastStale(cur, last) == last
EdgeNextLast(cur, last) == IF cur # last THEN cur ELSE last

GetDirection(allow_repeat) ==
    LET current_direction == Classify(x_val, y_val, x_center, y_center)
        current_time == now
        emits == RepeatEmits(current_direction, last_direction, current_time,
                             last_direction_time)
        ret == IF allow_repeat
               THEN (IF emits THEN current_direction ELSE "center")
               ELSE EdgeResult(current_direction, last_direction)
    IN
    /\ heldPolls < MaxHeldPolls
    /\ last_direction' =
           IF allow_repeat
           THEN (IF current_direction = "center" THEN "center"
                 ELSE IF emits THEN current_direction ELSE last_direction)
           ELSE EdgeNextLast(current_direction, last_direction)
    /\ last_direction_time' =
           IF allow_repeat /\ emits THEN current_time ELSE last_direction_time
    /\ dirRet' = ret
    \* observations
    /\ dirClass' = current_direction
    /\ prevClass' = dirClass
    /\ lastMode' = IF allow_repeat THEN "repeat" ELSE "edge"
    /\ heldPolls' = heldPolls + 1
    /\ heldEmits' = heldEmits + (IF ret # "center" THEN 1 ELSE 0)
    /\ heldEdgeOnly' = (heldEdgeOnly /\ ~allow_repeat)
    /\ pollT' = current_time
    /\ emitT' = IF ret # "center" THEN current_time ELSE emitT
    /\ prevEmitT' = emitT
    /\ onlyRepeat' = (onlyRepeat /\ allow_repeat)
    /\ UNCHANGED <<now, step, gameVars, x_val, y_val, x_center, y_center, fromClass, calVars>>
    /\ UNCHANGED <<clickVars, menuVars, dispVars>>

\* the ADC readings the stick can take: the centre, both sides of each threshold
XValues == {X_CENTER - threshold - 1, X_CENTER - threshold, X_CENTER,
            X_CENTER + threshold, X_CENTER + threshold + 1}
YValues == {Y_CENTER - threshold - 1, Y_CENTER, Y_CENTER + threshold + 1}

\* the stick moves to another position
MoveStick ==
    \E x \in XValues, y \in YValues :
        /\ <<x, y>> # <<x_val, y_val>>
        /\ x_val' = x /\ y_val' = y
        /\ fromClass' = dirClass
        /\ heldPolls' = 0 /\ heldEmits' = 0 /\ heldEdgeOnly' = TRUE
        /\ UNCHANGED <<now, step, gameVars, x_center, y_center, last_direction, last_direction_time,
                       dirRet, dirClass, prevClass, lastMode, pollT, emitT, prevEmitT,
                       onlyRepeat, calVars>>
        /\ UNCHANGED <<clickVars, menuVars, dispVars>>

(***************************************************************************)
(* Claims about get_direction (checked under SpecDir).                     *)
(***************************************************************************)
(***************************************************************************)
(* Joystick.calibrate.  The loop samples the two ADCs, sleeps 10 ms and is  *)
(* left once calibration_time_s * 1000 ms have passed since it began; the   *)
(* whole call is one step, its readings are drawn per sample.               *)
(***************************************************************************)
calibrate_sleep_ms == 10

\* the number of passes of the loop for a window of window_ms milliseconds: the
\* k-th pass begins (k - 1) * 10 ms after the start and runs while that is less
\* than the window
CalSamples(window_ms) == (window_ms + calibrate_sleep_ms - 1) \div calibrate_sleep_ms

RECURSIVE SumSeq(_)
SumSeq(q) == IF q = <<>> THEN 0 ELSE q[1] + SumSeq(Tail(q))

\* x_sum // samples rounded up instead of down
CenterAfterRoundUp(sum, samples, old) ==
    IF samples > 0 THEN (sum + samples - 1) \div samples ELSE old

\* the centre is cleared when no sample was taken
CenterAfterCleared(sum, samples, old) ==
    IF samples > 0 THEN sum \div samples ELSE 0

\* lines 206-211: the centre after the loop
CenterAfter(sum, samples, old) ==
    IF samples > 0 THEN sum \div samples ELSE old

\* the windows tried: 0 ms, and one to MaxSamples passes of the loop
CalWindows == {calibrate_sleep_ms * k : k \in 0 .. MaxSamples}
\* the <<x, y>> readings a sample can take: the stick at rest, and held right and up
CalReadings == { <<X_CENTER, Y_CENTER>>,
                 <<X_CENTER + threshold + 1, Y_CENTER - threshold - 1>> }

Calibrate ==
    /\ calRuns < MaxCalRuns
    /\ \E window_ms \in CalWindows :
       \E readings \in [1 .. CalSamples(window_ms) -> CalReadings] :
        LET samples == CalSamples(window_ms)
            xs == [i \in 1 .. samples |-> readings[i][1]]
            ys == [i \in 1 .. samples |-> readings[i][2]]
            x_sum == SumSeq(xs)
            y_sum == SumSeq(ys)
        IN
        /\ x_center' = CenterAfter(x_sum, samples, x_center)
        /\ y_center' = CenterAfter(y_sum, samples, y_center)
        /\ now' = now + samples * calibrate_sleep_ms
        \* the ADCs are left at the last reading
        /\ x_val' = IF samples > 0 THEN xs[samples] ELSE x_val
        /\ y_val' = IF samples > 0 THEN ys[samples] ELSE y_val
        \* observations
        /\ calRuns' = calRuns + 1
        /\ calWindow' = window_ms
        /\ calXs' = xs /\ calYs' = ys
        /\ calPrevCenters' = <<x_center, y_center>>
        /\ fromClass' = dirClass
        /\ heldPolls' = 0 /\ heldEmits' = 0 /\ heldEdgeOnly' = TRUE
        /\ UNCHANGED <<step, gameVars, last_direction, last_direction_time, dirRet, dirClass,
                       prevClass, lastMode, pollT, emitT, prevEmitT, onlyRepeat>>
        /\ UNCHANGED <<clickVars, menuVars, dispVars>>

CurClass == Classify(x_val, y_val, x_center, y_center)

\* C4: in edge mode (allow_repeat=False) a poll returns 'center' whenever the
\* classified direction equals the classification of the previous poll (before
\* the first poll: 'center') and returns the new direction on the poll where the
\* classification changes; so a stick pushed from the dead zone into the right
\* zone and held there, polled in edge mode, has reported 'right' on exactly one
\* poll, the first.
C4_EdgeOncePerDeflection ==
    /\ lastMode = "edge"
          => dirRet = (IF dirClass = prevClass THEN "center" ELSE dirClass)
    /\ (heldPolls >= 1 /\ heldEdgeOnly /\ fromClass = "center" /\ CurClass = "right")
          => (heldEmits = 1 /\ (heldPolls >= 2 => dirRet = "center"))

\* C4 witness: the stick is held right after leaving the dead zone and has been
\* polled three times in edge mode.
C4_Witness ==
    /\ heldPolls = 3 /\ heldEdgeOnly /\ fromClass = "center" /\ CurClass = "right"
    /\ heldEmits = 1 /\ dirRet = "center" /\ lastMode = "edge"

\* the stick has not moved since the last poll read it
PolledHere == lastMode # "none" /\ heldPolls > 0
CrossesX == x_val > x_center + threshold \/ x_val < x_center - threshold
CrossesY == y_val > y_center + threshold \/ y_val < y_center - threshold

\* C16: the classification is the first matching zone in the order right
\* (x > center_x + threshold), left (x < center_x - threshold), down
\* (y > center_y + threshold), up (y < center_y - threshold), else center; so a
\* sample that crosses both an x and a y threshold classifies as left or right.
C16_AxisPriority ==
    PolledHere =>
        /\ x_val > x_center + threshold => dirClass = "right"
        /\ x_val < x_center - threshold => dirClass = "left"
        /\ (~CrossesX /\ y_val > y_center + threshold) => dirClass = "down"
        /\ (~CrossesX /\ y_val < y_center - threshold) => dirClass = "up"
        /\ (~CrossesX /\ ~CrossesY) => dirClass = "center"
        /\ (CrossesX /\ CrossesY) => dirClass \in {"left", "right"}

\* C16 witness: a diagonal sample (right and up) was polled and classified right.
C16_Witness ==
    /\ PolledHere
    /\ x_val = X_CENTER + threshold + 1 /\ y_val = Y_CENTER - threshold - 1
    /\ dirClass = "right"

\* C17: polled with allow_repeat=True only, a poll that classifies the stick in the
\* dead zone returns 'center'; a poll that classifies it in a zone returns the
\* direction when it is the first poll in that zone, and afterwards when it occurs
\* more than the repeat delay (150 ms) after the previous emission, and 'center'
\* otherwise.
C17_RepeatAfterDelay ==
    (onlyRepeat /\ lastMode = "repeat") =>
        IF dirClass = "center" THEN dirRet = "center"
        ELSE IF prevClass # dirClass THEN dirRet = dirClass
        ELSE /\ prevEmitT >= 0
             /\ dirRet = (IF pollT - prevEmitT > direction_repeat_delay_ms
                          THEN dirClass ELSE "center")

\* C17 witness: held right, polled in repeat mode only; the last poll came more than
\* 150 ms after the previous emission and emitted right again.
C17_Witness ==
    /\ onlyRepeat /\ lastMode = "repeat"
    /\ dirClass = "right" /\ prevClass = "right"
    /\ prevEmitT >= 0 /\ pollT - prevEmitT > direction_repeat_delay_ms
    /\ dirRet = "right"

(***************************************************************************)
(* UIManager.  A text is a sequence of character codes; an optional value  *)
(* is None or Some(v).  ops lists the calls made to self.screen.           *)
(***************************************************************************)
FillOp(color) ==
    [op |-> "fill", x |-> 0, y |-> 0, w |-> 0, h |-> 0, color |-> color, s |-> <<>>]
RectOp(x, y, w, h, color) ==
    [op |-> "fill_rect", x |-> x, y |-> y, w |-> w, h |-> h, color |-> color, s |-> <<>>]
TextOp(str, x, y, color) ==
    [op |-> "text", x |-> x, y |-> y, w |-> 0, h |-> 0, color |-> color, s |-> str]

\* UIManager.__init__, line 21-24 and 32-36
text_color == WHITE
bg_color == BLACK
highlight_text_color == GREEN
highlight_bg_color == YELLOW
InitMenuState == [selected_idx |-> -1, items |-> None, start_y |-> 0, title_text |-> None]

\* Python truthiness of an optional string, and indexing with a negative index
Truthy(opt) == opt # None /\ opt[1] # <<>>
PyIndex(seq, i) == IF i < 0 THEN seq[Len(seq) + i + 1] ELSE seq[i + 1]

\* clear_screen, line 38-40
ClearScreenOps(color) == <<FillOp(IF color # None THEN color[1] ELSE bg_color)>>

\* _draw_char_internal, line 42-47
DrawCharOps(char_code, x, y, color, bg) ==
    LET char == IF char_code < 128 THEN char_code ELSE 63
    IN (IF bg # None THEN <<RectOp(x, y, char_width_eng, char_height, bg[1])>> ELSE <<>>)
       \o <<TextOp(<<char>>, x, y, color)>>

\* display_text_line, line 55-62: one _draw_char_internal per character, cut at
\* max_width
RECURSIVE TextLineFrom(_, _, _, _, _, _, _, _)
TextLineFrom(text, i, current_x, x, y, color, bg, max_width) ==
    IF i > Len(text) THEN <<>>
    ELSE IF max_width # None /\ (current_x + char_width_eng) > (x + max_width[1]) THEN <<>>
    ELSE DrawCharOps(text[i], current_x, y, color, bg)
         \o TextLineFrom(text, i + 1, current_x + char_width_eng, x, y, color, bg, max_width)
DisplayTextLineOps(text, x, y, color, bg, max_width) ==
    TextLineFrom(text, 1, x, x, y, color, bg, max_width)

\* str.split(' ')
RECURSIVE SplitFrom(_, _, _)
SplitFrom(text, i, cur) ==
    IF i > Len(text) THEN <<cur>>
    ELSE IF text[i] = 32 THEN <<cur>> \o SplitFrom(text, i + 1, <<>>)
    ELSE SplitFrom(text, i + 1, Append(cur, text[i]))
Split(text) == SplitFrom(text, 1, <<>>)

\* display_text_multiline, line 71-90 (line_height=None)
RECURSIVE MultilineFrom(_, _, _, _, _, _, _, _)
MultilineFrom(words, i, current_line, x, y, max_width, color, bg) ==
    IF i > Len(words)
    THEN (IF current_line # <<>>
          THEN DisplayTextLineOps(current_line, x, y, color, bg, Some(max_width))
          ELSE <<>>)
    ELSE LET test_line == current_line \o (IF current_line # <<>> THEN <<32>> ELSE <<>>)
                          \o words[i]
         IN IF Len(test_line) * char_width_eng <= max_width
            THEN MultilineFrom(words, i + 1, test_line, x, y, max_width, color, bg)
            ELSE DisplayTextLineOps(current_line, x, y, color, bg, Some(max_width))
                 \o (IF (y + char_height + line_spacing) + char_height > SCREEN_HEIGHT
                     THEN <<>>
                     ELSE MultilineFrom(words, i + 1, words[i], x,
                                        y + char_height + line_spacing, max_width, color, bg))
DisplayTextMultilineOps(text, x, y, max_width, color, bg) ==
    MultilineFrom(Split(text), 1, <<>>, x, y, max_width, color, bg)

\* _draw_menu_item, line 126-136
DrawMenuItemOps(index, text, start_y, title_height, is_selected) ==
    LET y_pos == start_y + title_height + index * (char_height + line_spacing * 2)
        item_height == char_height + line_spacing
    IN <<RectOp(0, y_pos, SCREEN_WIDTH, item_height,
                IF is_selected THEN highlight_bg_color ELSE bg_color)>>
       \o DisplayTextLineOps(text, 5, y_pos + line_spacing,
                             IF is_selected THEN highlight_text_color ELSE text_color,
                             None, None)

\* draw_menu, line 94-96
NeedFullRefreshAll(last_state, items, start_y, title) ==
    /\ last_state.items # Some(items)
    /\ last_state.start_y # start_y
    /\ last_state.title_text # title
NeedFullRefresh(last_state, items, start_y, title) ==
    \/ last_state.items # Some(items)
    \/ last_state.start_y # start_y
    \/ last_state.title_text # title

\* draw_menu, line 111-112: the rows of a full repaint
RECURSIVE AllRowsFrom(_, _, _, _, _)
AllRowsFrom(items, i, selected_index, start_y, title_height) ==
    IF i >= Len(items) THEN <<>>
    ELSE DrawMenuItemOps(i, PyIndex(items, i), start_y, title_height, i = selected_index)
         \o AllRowsFrom(items, i + 1, selected_index, start_y, title_height)

\* draw_menu, line 101-112: the full repaint; the rows are drawn inside `if title:`
FullRepaintOps(items, selected_index, title, start_y, title_height) ==
    ClearScreenOps(None)
    \o (IF Truthy(title)
        THEN <<RectOp(0, start_y, SCREEN_WIDTH, title_height, bg_color)>>
             \o DisplayTextMultilineOps(title[1], 5, start_y, SCREEN_WIDTH - 10,
                                        highlight_text_color, Some(bg_color))
             \o AllRowsFrom(items, 0, selected_index, start_y, title_height)
        ELSE <<>>)

\* draw_menu, line 115-118: the partial repaint
PartialRepaintOps(old_idx, items, selected_index, start_y, title_height) ==
    IF old_idx # selected_index
    THEN DrawMenuItemOps(old_idx, PyIndex(items, old_idx), start_y, title_height, FALSE)
         \o DrawMenuItemOps(selected_index, PyIndex(items, selected_index), start_y,
                            title_height, TRUE)
    ELSE <<>>

\* the menus and titles the model calls draw_menu with
MenuA == << <<49>>, <<50>>, <<51>> >>
MenuB == << <<66, 101, 116>>, <<88>> >>
MenuItems == {MenuA, MenuB}
MenuTitles == {None, Some(<<>>), Some(<<103, 32, 98>>)}
MenuStartYs == {0, 10}

\* draw_menu, line 92-125.  _last_menu_state is assigned only on the partial path,
\* inside `if old_idx != selected_index:` (line 116-125).
DrawMenu(items, selected_index, title, start_y) ==
    LET last_state == last_menu_state
        need_full_refresh == NeedFullRefresh(last_state, items, start_y, title)
        title_height == IF Truthy(title) THEN char_height + line_spacing ELSE 0
        old_idx == last_state.selected_idx
    IN
    /\ ops' = IF need_full_refresh
              THEN FullRepaintOps(items, selected_index, title, start_y, title_height)
              ELSE PartialRepaintOps(old_idx, items, selected_index, start_y, title_height)
    /\ last_menu_state' =
           IF ~need_full_refresh /\ old_idx # selected_index
           THEN [selected_idx |-> selected_index, items |-> Some(items),
                 start_y |-> start_y, title_text |-> title]
           ELSE last_menu_state
    \* observations
    /\ menuArgs' = Some([items |-> items, selected_index |-> selected_index,
                         title |-> title, start_y |-> start_y])
    /\ prevMenuArgs' = menuArgs
    /\ menuStateBefore' = last_menu_state
    /\ UNCHANGED <<now, step, gameVars, lineArgs, uiCall, clickVars, dirVars, dispVars>>

DrawMenuCall ==
    \E items \in MenuItems, title \in MenuTitles, start_y \in MenuStartYs :
        \E selected_index \in 0 .. (Len(items) - 1) :
            DrawMenu(items, selected_index, title, start_y)

InitMenuIdle ==
    /\ last_menu_state = InitMenuState
    /\ ops = <<>> /\ menuArgs = None /\ prevMenuArgs = None
    /\ menuStateBefore = InitMenuState
    /\ lineArgs = None /\ uiCall = [fn |-> "none", args |-> <<>>]

(***************************************************************************)
(* Claims about draw_menu (checked under SpecMenu).                        *)
(***************************************************************************)
\* the last draw_menu call and the one before it, once they were made
Called == menuArgs # None
CalledTwice == prevMenuArgs # None
CurM == menuArgs[1]
PrevM == prevMenuArgs[1]
TitleBand(title) == IF Truthy(title) THEN char_height + line_spacing ELSE 0
RowY(k, m) == m.start_y + TitleBand(m.title) + k * (char_height + line_spacing * 2)
RowRect(k, m, highlighted) ==
    RectOp(0, RowY(k, m), SCREEN_WIDTH, char_height + line_spacing,
           IF highlighted THEN highlight_bg_color ELSE bg_color)
OpsOf(kind) == {n \in DOMAIN ops : ops[n].op = kind}
ClearedFirst == Len(ops) >= 1 /\ ops[1] = FillOp(bg_color)
\* the characters of row k were drawn, left to right, in the row's text colour
RowTextDrawn(k, m, highlighted) ==
    LET label == m.items[k + 1]
    IN \A c \in 1 .. Len(label) :
           \E n \in OpsOf("text") :
               ops[n] = TextOp(<<label[c]>>, 5 + (c - 1) * char_width_eng,
                               RowY(k, m) + line_spacing,
                               IF highlighted THEN highlight_text_color ELSE text_color)
SameMenuMovedSelection ==
    /\ CalledTwice
    /\ CurM.items = PrevM.items /\ CurM.start_y = PrevM.start_y /\ CurM.title = PrevM.title
    /\ CurM.selected_index # PrevM.selected_index

\* C5 (as claimed): draw_menu called twice in succession with the same items,
\* start_y and title and selected_index changed from i to j performs on the second
\* call no screen clear and redraws exactly rows i (unhighlighted) and j
\* (highlighted), each as one rectangle fill plus one text draw, and no other row.
C5_SecondCallPartial ==
    SameMenuMovedSelection =>
        LET i == PrevM.selected_index
            j == CurM.selected_index
        IN /\ OpsOf("fill") = {}
           /\ {ops[n] : n \in OpsOf("fill_rect")} = {RowRect(i, CurM, FALSE), RowRect(j, CurM, TRUE)}
           /\ Cardinality(OpsOf("fill_rect")) = 2
           /\ RowTextDrawn(i, CurM, FALSE) /\ RowTextDrawn(j, CurM, TRUE)
           /\ \A n \in OpsOf("text") :
                  ops[n].y \in {RowY(i, CurM) + line_spacing, RowY(j, CurM) + line_spacing}

\* C6: a draw_menu call whose items, start_y or title differ from the retained
\* state performs a full repaint: the full-screen clear is the first call made to
\* the screen.
C6_DifferentMenuClearsFirst ==
    (/\ Called
     /\ \/ menuStateBefore.items # Some(CurM.items)
        \/ menuStateBefore.start_y # CurM.start_y
        \/ menuStateBefore.title_text # CurM.title)
    => ClearedFirst

\* C6 witness: a second call with another item list has cleared the screen first.
C6_Witness ==
    /\ CalledTwice
    /\ CurM.items # PrevM.items
    /\ menuStateBefore.items # Some(CurM.items)
    /\ ClearedFirst /\ Len(ops) > 1

\* C7 (as claimed): a full repaint clears the screen, draws the title region when a
\* title is given, and draws every item row with its highlight state (the selected
\* row highlighted, every other row not), whether or not a title is supplied.
C7_FullRepaintDrawsAllRows ==
    (Called /\ ClearedFirst) =>
        /\ Truthy(CurM.title) =>
               \E n \in OpsOf("fill_rect") :
                   ops[n] = RectOp(0, CurM.start_y, SCREEN_WIDTH, TitleBand(CurM.title), bg_color)
        /\ \A k \in 0 .. (Len(CurM.items) - 1) :
               /\ \E n \in OpsOf("fill_rect") :
                      ops[n] = RowRect(k, CurM, k = CurM.selected_index)
               /\ RowTextDrawn(k, CurM, k = CurM.selected_index)

(***************************************************************************)
(* ST7789.  bus lists the writes to the SPI bus: dc is the level of the    *)
(* data/command line (0 command, 1 data) and the bytes written are `data`  *)
(* repeated `rep` times (Python's  pixel_data * n ).                       *)
(***************************************************************************)
Phase(dc, rep, data) == [dc |-> dc, rep |-> rep, data |-> data]

\* struct.pack(">H", v): MicroPython keeps the low 16 bits, big-endian
Pack16LittleEndian(v) == <<v % 256, (v % 65536) \div 256>>
Pack16(v) == <<(v % 65536) \div 256, v % 256>>

\* _write_data, line 133-143
WriteData(rep, data) == <<Phase(1, rep, data)>>

\* _write_command, line 118-131
WriteCommand(command, data) ==
    <<Phase(0, 1, <<command>>)>> \o (IF data # None THEN WriteData(1, data[1]) ELSE <<>>)

\* set_window, line 145-154
SetWindow(rot, x0, y0, x1, y1) ==
    LET swap == rot \in {1, 3}
        cx0 == IF swap THEN y0 ELSE x0
        cy0 == IF swap THEN x0 ELSE y0
        cx1 == IF swap THEN y1 ELSE x1
        cy1 == IF swap THEN x1 ELSE y1
    IN WriteCommand(CASET, Some(Pack16(cx0) \o Pack16(cx1)))
       \o WriteCommand(RASET, Some(Pack16(cy0) \o Pack16(cy1)))
       \o WriteCommand(RAMWR, None)

\* fill_rect, line 168-169: the far corner of the window, clipped to the canvas
RectEnd(start, size, limit) == Min(start + size - 1, limit - 1)

\* fill_rect, line 180: the pixels of one transfer
ChunkLenFull(remaining) == chunk_size
ChunkLen(remaining) == Min(chunk_size, remaining)

\* len(range(0, stop, stride)) for a positive stride
RangeLenPlusOne(stop, stride) == IF stop <= 0 THEN 0 ELSE stop \div stride + 1
RangeLen(stop, stride) == IF stop <= 0 THEN 0 ELSE (stop + stride - 1) \div stride

\* fill_rect, line 179-181: one transfer per element of range(0, pixels, chunk_size);
\* `pixels -= chunk_size` after each, so the k-th transfer sees
\* pixels - (k-1) * chunk_size remaining
FillChunks(pixels, pixel_data) ==
    [k \in 1 .. RangeLen(pixels, chunk_size) |->
        WriteData(ChunkLen(pixels - (k - 1) * chunk_size), pixel_data)[1]]

\* fill_rect, line 166-181
FillRectWindow(x, y, width, height) ==
    <<x, y, RectEnd(x, width, SCREEN_WIDTH), RectEnd(y, height, SCREEN_HEIGHT)>>
FillRectBus(rot, x, y, width, height, color) ==
    LET win == FillRectWindow(x, y, width, height)
        pixel_data == Pack16(color)
        pixels == width * height
    IN SetWindow(rot, win[1], win[2], win[3], win[4])
       \o FillChunks(pixels, pixel_data)

\* fill, line 162-164
FillBus(rot, color) == FillRectBus(rot, 0, 0, SCREEN_WIDTH, SCREEN_HEIGHT, color)

(***************************************************************************)
(* The lines of the display.  A wire event is a write to a pin (line       *)
(* "reset", "dc", "cs" or "backlight", with the level written) or a write  *)
(* to the SPI bus (line "spi": `data` repeated `rep` times; role 0 when    *)
(* _write_command wrote it as the opcode, 1 when _write_data wrote it).    *)
(***************************************************************************)
PinEv(t, line, level) ==
    [t |-> t, line |-> line, level |-> level, role |-> 0, rep |-> 0, data |-> <<>>]
SpiEv(t, role, rep, data) ==
    [t |-> t, line |-> "spi", level |-> 0, role |-> role, rep |-> rep, data |-> data]

\* _write_command line 120-128 and _write_data line 135-143: set the dc pin (0 for
\* the opcode, 1 for data), pull cs low, write, raise cs; each pin only if given
PhaseWireDcLow(p, ph, t) ==
    (IF p.dc THEN <<PinEv(t, "dc", 0)>> ELSE <<>>)
    \o (IF p.cs THEN <<PinEv(t, "cs", 0)>> ELSE <<>>)
    \o <<SpiEv(t, ph.dc, ph.rep, ph.data)>>
    \o (IF p.cs THEN <<PinEv(t, "cs", 1)>> ELSE <<>>)
PhaseWire(p, ph, t) ==
    (IF p.dc THEN <<PinEv(t, "dc", ph.dc)>> ELSE <<>>)
    \o (IF p.cs THEN <<PinEv(t, "cs", 0)>> ELSE <<>>)
    \o <<SpiEv(t, ph.dc, ph.rep, ph.data)>>
    \o (IF p.cs THEN <<PinEv(t, "cs", 1)>> ELSE <<>>)

\* the wire events of the bus writes of one operation, in order: each bus write
\* takes the same number of events, which depends on the pins given
EventsPerWrite(p) == (IF p.dc THEN 1 ELSE 0) + (IF p.cs THEN 2 ELSE 0) + 1
Wire(p, phases, t) ==
    [i \in 1 .. EventsPerWrite(p) * Len(phases) |->
        PhaseWire(p, phases[((i - 1) \div EventsPerWrite(p)) + 1], t)
            [((i - 1) % EventsPerWrite(p)) + 1]]

\* the rectangles the model calls fill_rect with: inside the canvas, across each
\* edge, outside it, and empty
RectXs == {-5, 0, 235, 240}
RectWs == {0, 5, 40, 240}
RectYs == {-5, 0, 319, 320}
RectHs == {0, 1, 16, 320}
RectColors == {BLACK, YELLOW}

(***************************************************************************)
(* ST7789.__init__ and reset, one statement at a time: the statements are  *)
(* pin writes, sleeps and bus writes, and time passes in the sleeps.       *)
(***************************************************************************)
PinStmt(line, level) == [k |-> "pin", line |-> line, v |-> level, phases |-> <<>>]
SleepStmt(ms) == [k |-> "sleep", line |-> "", v |-> ms, phases |-> <<>>]
BusStmt(phases) == [k |-> "bus", line |-> "", v |-> 0, phases |-> phases]

\* __init__, line 66-73: Pin.init(Pin.OUT, value=...) of the pins given
GpioInit(p) ==
    (IF p.reset THEN <<PinStmt("reset", 1)>> ELSE <<>>)
    \o (IF p.dc THEN <<PinStmt("dc", 0)>> ELSE <<>>)
    \o (IF p.cs THEN <<PinStmt("cs", 1)>> ELSE <<>>)
    \o (IF p.backlight THEN <<PinStmt("backlight", 1)>> ELSE <<>>)

\* reset, line 97-105
ResetProgramNoSettle(p) ==
    IF p.reset
    THEN <<PinStmt("reset", 1), SleepStmt(100), PinStmt("reset", 0), SleepStmt(100),
           PinStmt("reset", 1)>>
    ELSE <<>>
ResetProgram(p) ==
    IF p.reset
    THEN <<PinStmt("reset", 1), SleepStmt(100), PinStmt("reset", 0), SleepStmt(100),
           PinStmt("reset", 1), SleepStmt(200)>>
    ELSE <<>>

\* _get_madctl, line 107-116
GetMadctl(rot) ==
    IF rot = 0 THEN 0 ELSE IF rot = 1 THEN 96 ELSE IF rot = 2 THEN 192 ELSE 160

\* __init__, line 65-95
InitProgramFillEarly(p, rot) ==
    GpioInit(p)
    \o ResetProgram(p)
    \o <<BusStmt(WriteCommand(SWRESET, None)), SleepStmt(150),
         BusStmt(WriteCommand(SLPOUT, None)), SleepStmt(255),
         BusStmt(WriteCommand(COLMOD, Some(<<85>>))),
         BusStmt(WriteCommand(MADCTL, Some(<<GetMadctl(rot)>>))),
         BusStmt(FillBus(rot, BLACK)),
         BusStmt(WriteCommand(DISPON, None)), SleepStmt(100)>>
InitProgram(p, rot) ==
    GpioInit(p)
    \o ResetProgram(p)
    \o <<BusStmt(WriteCommand(SWRESET, None)), SleepStmt(150),
         BusStmt(WriteCommand(SLPOUT, None)), SleepStmt(255),
         BusStmt(WriteCommand(COLMOD, Some(<<85>>))),
         BusStmt(WriteCommand(MADCTL, Some(<<GetMadctl(rot)>>))),
         BusStmt(WriteCommand(DISPON, None)), SleepStmt(100),
         BusStmt(FillBus(rot, BLACK))>>

Constructed == pc = Len(InitProgram(pins, rotation))
NextStmt == InitProgram(pins, rotation)[pc + 1]

\* a pin write of __init__ or reset
DrivePin ==
    /\ ~Constructed /\ NextStmt.k = "pin"
    /\ wire' = Append(wire, PinEv(now, NextStmt.line, NextStmt.v))
    /\ pc' = pc + 1
    /\ UNCHANGED <<now, step, gameVars, rotation, bus, winCalls, rectArgs, fault, pins, oversleep, opArgs,
                   clickVars, dirVars, menuVars>>

\* a time.sleep_ms of __init__ or reset: at least the time asked for
SleepMs ==
    /\ ~Constructed /\ NextStmt.k = "sleep"
    /\ now' = now + NextStmt.v + oversleep
    /\ pc' = pc + 1
    /\ UNCHANGED <<step, gameVars, rotation, bus, winCalls, rectArgs, fault, pins, oversleep, wire, opArgs,
                   clickVars, dirVars, menuVars>>

\* a _write_command of __init__, or its closing fill
BusWrite ==
    /\ ~Constructed /\ NextStmt.k = "bus"
    /\ bus' = bus \o NextStmt.phases
    /\ wire' = wire \o Wire(pins, NextStmt.phases, now)
    /\ pc' = pc + 1
    /\ UNCHANGED <<now, step, gameVars, rotation, winCalls, rectArgs, fault, pins, oversleep, opArgs,
                   clickVars, dirVars, menuVars>>

\* main.py, line 100-109: dc, reset and backlight pins given, cs=None
MainPins == [reset |-> TRUE, dc |-> TRUE, cs |-> FALSE, backlight |-> TRUE]
PinChoices == [reset : BOOLEAN, dc : BOOLEAN, cs : BOOLEAN, backlight : BOOLEAN]

\* a constructed driver between operations
InitDriverIdle ==
    /\ pins = MainPins /\ pc = Len(InitProgram(MainPins, 0)) /\ oversleep = 0
    /\ wire = <<>> /\ opArgs = None

FillRect ==
    /\ Constructed
    /\ \E x \in RectXs, y \in RectYs, width \in RectWs, height \in RectHs,
       color \in RectColors :
        /\ bus' = FillRectBus(rotation, x, y, width, height, color)
        /\ winCalls' = <<FillRectWindow(x, y, width, height)>>
        /\ rectArgs' = Some([x |-> x, y |-> y, w |-> width, h |-> height, color |-> color])
        /\ fault' = None
        /\ UNCHANGED <<now, step, gameVars, rotation, drvVars, clickVars, dirVars, menuVars>>

(***************************************************************************)
(* fill_rect on a bus whose spi.write can raise (OSError).  Neither        *)
(* fill_rect, set_window, _write_command nor _write_data has a try         *)
(* statement, so the exception leaves each of them at the failing write.   *)
(***************************************************************************)
\* the failing write is made a second time
AttemptedRetried(phases, failing) ==
    IF failing = 0 THEN phases ELSE SubSeq(phases, 1, failing) \o <<phases[failing]>>

\* the spi.write calls made when write number `failing` raises (0: none does)
Attempted(phases, failing) ==
    IF failing = 0 THEN phases ELSE SubSeq(phases, 1, failing)
\* those of them that returned
Completed(phases, failing) ==
    IF failing = 0 THEN phases ELSE SubSeq(phases, 1, failing - 1)

\* the rectangles filled on the failing bus: two chunks, the whole canvas, one pixel
FaultRects == { <<0, 0, 40, 16>>, <<0, 0, SCREEN_WIDTH, SCREEN_HEIGHT>>, <<0, 0, 1, 1>> }

FillRectFaulty ==
    /\ Constructed
    /\ \E r \in FaultRects :
       \E failing \in 0 .. Len(FillRectBus(rotation, r[1], r[2], r[3], r[4], BLACK)) :
        LET phases == FillRectBus(rotation, r[1], r[2], r[3], r[4], BLACK)
        IN
        /\ bus' = Completed(phases, failing)
        /\ winCalls' = <<FillRectWindow(r[1], r[2], r[3], r[4])>>
        /\ rectArgs' = Some([x |-> r[1], y |-> r[2], w |-> r[3], h |-> r[4], color |-> BLACK])
        /\ fault' = Some([at |-> failing, calls |-> Attempted(phases, failing),
                          raised |-> failing # 0])
        /\ UNCHANGED <<now, step, gameVars, rotation, drvVars, clickVars, dirVars, menuVars>>

InitDispIdle ==
    /\ rotation = 0 /\ bus = <<>> /\ winCalls = <<>> /\ rectArgs = None /\ fault = None
    /\ InitDriverIdle

(***************************************************************************)
(* pixel, set_window and text on a constructed driver.                     *)
(***************************************************************************)
OpRec(op, x0, y0, x1, y1, color, bg, str, font_height, font) ==
    [op |-> op, x0 |-> x0, y0 |-> y0, x1 |-> x1, y1 |-> y1, color |-> color, bg |-> bg,
     s |-> str, font_height |-> font_height, font |-> font]

\* pixel, line 156-160
InCanvas(x, y) == 0 <= x /\ x < SCREEN_WIDTH /\ 0 <= y /\ y < SCREEN_HEIGHT
PixelWindows(x, y) == IF InCanvas(x, y) THEN << <<x, y, x, y>> >> ELSE <<>>
PixelBusUnchecked(rot, x, y, color) ==
    SetWindow(rot, x, y, x, y) \o WriteData(1, Pack16(color))
PixelBus(rot, x, y, color) ==
    IF InCanvas(x, y)
    THEN SetWindow(rot, x, y, x, y) \o WriteData(1, Pack16(color))
    ELSE <<>>

PixelXs == {-1, 0, 239, 240}
PixelYs == {-1, 0, 319, 320}
PixelColors == {WHITE, GREEN}

Pixel ==
    /\ Constructed
    /\ \E x \in PixelXs, y \in PixelYs, color \in PixelColors :
        /\ bus' = PixelBus(rotation, x, y, color)
        /\ winCalls' = PixelWindows(x, y)
        /\ wire' = Wire(pins, bus', now)
        /\ opArgs' = Some(OpRec("pixel", x, y, x, y, color, None, <<>>, 0, ""))
        /\ UNCHANGED <<now, step, gameVars, rotation, rectArgs, fault, pins, pc, oversleep, clickVars, dirVars,
                       menuVars>>

\* set_window called on its own, line 145-154
WinXs == {0, 5, 300}
WinYs == {0, 319}

SetWindowCall ==
    /\ Constructed
    /\ \E x0 \in WinXs, x1 \in WinXs, y0 \in WinYs, y1 \in WinYs :
        /\ bus' = SetWindow(rotation, x0, y0, x1, y1)
        /\ winCalls' = << <<x0, y0, x1, y1>> >>
        /\ wire' = Wire(pins, bus', now)
        /\ opArgs' = Some(OpRec("set_window", x0, y0, x1, y1, 0, None, <<>>, 0, ""))
        /\ UNCHANGED <<now, step, gameVars, rotation, rectArgs, fault, pins, pc, oversleep, clickVars, dirVars,
                       menuVars>>

\* framebuf's built-in 8x8 font is not part of the repository: the bitmap of a glyph
\* is one of three patterns the environment picks (no cell set, every cell set, a
\* checkerboard that depends on the character)
Fonts == {"blank", "solid", "checker"}
GlyphBit(font, code, col, row) ==
    IF font = "blank" THEN FALSE
    ELSE IF font = "solid" THEN TRUE
    ELSE (code + col + row) % 2 = 0

\* text, line 217-222 and 233: fb.fill(0), fb.text(text_string, 0, 0, 1), then
\* fb.pixel(px, py) == 1: 8x8 glyphs side by side from the top-left corner
FbPixelSet(font, text_string, px, py) ==
    /\ py < 8
    /\ px \div 8 < Len(text_string)
    /\ GlyphBit(font, text_string[px \div 8 + 1], px % 8, py)

\* text, line 197-205: the drawn region
TextCharWidth(font_height) == IF font_height >= 8 THEN font_height \div 2 ELSE 8
TextXEnd(text_string, x, font_height) ==
    Min(x + Len(text_string) * TextCharWidth(font_height), SCREEN_WIDTH)
TextYEnd(y, font_height) == Min(y + font_height, SCREEN_HEIGHT)
TextDrawn(text_string, x, y, font_height) ==
    ~ (TextXEnd(text_string, x, font_height) - x <= 0 \/ TextYEnd(y, font_height) - y <= 0)

\* text, line 237: the colour of one pixel
TargetColorNoBg(is_pixel_set, color, bg) ==
    IF is_pixel_set THEN color ELSE BLACK
TargetColor(is_pixel_set, color, bg) ==
    IF is_pixel_set THEN color ELSE (IF bg # None THEN bg[1] ELSE BLACK)

\* text, line 228-242: the pixel buffer, two bytes per pixel, rows top to bottom
PixelDataBuffer(font, text_string, draw_width, draw_height, color, bg) ==
    [i \in 1 .. draw_width * draw_height * 2 |->
        LET idx == i - 1
            py == (idx \div 2) \div draw_width
            px == (idx \div 2) % draw_width
            target_color == TargetColor(FbPixelSet(font, text_string, px, py), color, bg)
        IN IF idx % 2 = 0 THEN (target_color \div 256) % 256 ELSE target_color % 256]

\* text, line 182-245
TextWindows(text_string, x, y, font_height) ==
    IF TextDrawn(text_string, x, y, font_height)
    THEN << <<x, y, TextXEnd(text_string, x, font_height) - 1, TextYEnd(y, font_height) - 1>> >>
    ELSE <<>>
TextBus(rot, font, text_string, x, y, color, bg, font_height) ==
    LET x_end == TextXEnd(text_string, x, font_height)
        y_end == TextYEnd(y, font_height)
    IN IF ~TextDrawn(text_string, x, y, font_height) THEN <<>>
       ELSE SetWindow(rot, x, y, x_end - 1, y_end - 1)
            \o WriteData(1, PixelDataBuffer(font, text_string, x_end - x, y_end - y,
                                             color, bg))

TextStrings == {<<>>, <<65>>, <<72, 105>>}
TextXs == {-4, 0, 236, 240}
TextYs == {0, 312}
TextBgs == {None, Some(YELLOW)}
FontHeights == {4, 16}

Text ==
    /\ Constructed
    /\ \E text_string \in TextStrings, x \in TextXs, y \in TextYs, bg \in TextBgs,
       font_height \in FontHeights, font \in Fonts :
        /\ bus' = TextBus(rotation, font, text_string, x, y, GREEN, bg, font_height)
        /\ winCalls' = TextWindows(text_string, x, y, font_height)
        /\ wire' = Wire(pins, bus', now)
        /\ opArgs' = Some(OpRec("text", x, y, 0, 0, GREEN, bg, text_string, font_height, font))
        /\ UNCHANGED <<now, step, gameVars, rotation, rectArgs, fault, pins, pc, oversleep, clickVars, dirVars,
                       menuVars>>

(***************************************************************************)
(* UIManager.display_text_line on the driver: the bus writes of the calls  *)
(* it makes to self.screen.                                                *)
(***************************************************************************)
\* the bus writes of one call to the screen: fill (line 40), fill_rect (line 46),
\* text(char, x, y, color) with its defaults bg_color=None, font_height=16 (line 47)
OpBus(rot, font, o) ==
    IF o.op = "fill" THEN FillBus(rot, o.color)
    ELSE IF o.op = "fill_rect" THEN FillRectBus(rot, o.x, o.y, o.w, o.h, o.color)
    ELSE TextBus(rot, font, o.s, o.x, o.y, o.color, None, 16)

\* ... and of calls lo..hi of a sequence of them (joined by halves)
RECURSIVE OpsBusRange(_, _, _, _, _)
OpsBusRange(rot, font, os, lo, hi) ==
    IF lo > hi THEN <<>>
    ELSE IF lo = hi THEN OpBus(rot, font, os[lo])
    ELSE LET mid == (lo + hi) \div 2
         IN OpsBusRange(rot, font, os, lo, mid) \o OpsBusRange(rot, font, os, mid + 1, hi)
OpsBus(rot, font, os) == OpsBusRange(rot, font, os, 1, Len(os))

\* "", "A", "AB", "ABC", and a line feed followed by e-acute
LineTexts == {<<>>, <<65>>, <<65, 66>>, <<65, 66, 67>>, <<10, 233>>}
LineXs == {0, 230}
LineYs == {0, 100}
LineBgs == {None, Some(BLACK)}
LineMaxWidths == {None, Some(12)}

\* display_text_line, line 49-62
DisplayTextLine ==
    /\ Constructed
    /\ \E text \in LineTexts, x \in LineXs, y \in LineYs, bg \in LineBgs,
          max_width \in LineMaxWidths, font \in Fonts :
        /\ ops' = DisplayTextLineOps(text, x, y, text_color, bg, max_width)
        /\ lineArgs' = Some([text |-> text, x |-> x, y |-> y, color |-> text_color,
                             bg |-> bg, max_width |-> max_width, font |-> font])
        /\ uiCall' = [fn |-> "display_text_line", args |-> <<text, x, y, bg, max_width>>]
        /\ UNCHANGED <<now, step, gameVars, last_menu_state, menuArgs, prevMenuArgs, menuStateBefore,
                       dispVars, clickVars, dirVars>>

(***************************************************************************)
(* The other screens of UIManager: clear_screen, display_text_multiline,   *)
(* show_message_box and show_welcome_screen, as the calls they make to     *)
(* self.screen.  A str is the sequence of its code points.                 *)
(***************************************************************************)
\* the part of the UI state that no call below assigns
UiFrame == <<now, step, gameVars, last_menu_state, menuArgs, prevMenuArgs, menuStateBefore,
             dispVars, clickVars, dirVars>>

ClearColors == {None, Some(BLUE)}
ClearScreen ==
    \E color \in ClearColors :
        /\ ops' = ClearScreenOps(color)
        /\ lineArgs' = None
        /\ uiCall' = [fn |-> "clear_screen", args |-> <<color>>]
        /\ UNCHANGED UiFrame

\* "", "Hi", "Hi AB"
MultiTexts == {<<>>, <<72, 105>>, <<72, 105, 32, 65, 66>>}
MultiYs == {10, 300}
MultiMaxWidths == {16, 220}
MultiBgs == {None, Some(BLACK)}
DisplayTextMultiline ==
    \E text \in MultiTexts, y \in MultiYs, max_width \in MultiMaxWidths, bg \in MultiBgs :
        /\ ops' = DisplayTextMultilineOps(text, 10, y, max_width, text_color, bg)
        /\ lineArgs' = None
        /\ uiCall' = [fn |-> "display_text_multiline", args |-> <<text, 10, y, max_width, bg>>]
        /\ UNCHANGED UiFrame

\* show_message_box, line 138-175
padding == 10
button_spacing == 5
box_height == SCREEN_HEIGHT - 2 * padding

\* line 153-158: the message lines from line i on, the loop left once current_y
\* has passed box_height - 20
RECURSIVE MessageLinesFrom(_, _, _)
MessageLinesFrom(message_lines, i, current_y) ==
    IF i > Len(message_lines) THEN <<>>
    ELSE DisplayTextMultilineOps(message_lines[i], padding, current_y,
                                 SCREEN_WIDTH - 2 * padding, text_color, Some(bg_color))
         \o (IF current_y + char_height + line_spacing > box_height - 20 THEN <<>>
             ELSE MessageLinesFrom(message_lines, i + 1,
                                   current_y + char_height + line_spacing))

\* line 161-175: the buttons from option i (0-based) on
RECURSIVE ButtonsFrom(_, _, _)
ButtonsFrom(options, i, selected_option_index) ==
    IF i >= Len(options) THEN <<>>
    ELSE LET button_width == (SCREEN_WIDTH - 2 * padding
                              - (Len(options) - 1) * button_spacing) \div Len(options)
             option == options[i + 1]
             btn_x == padding + i * (button_width + button_spacing)
             is_selected == (i = selected_option_index)
             text_x == btn_x + ((button_width - Len(option) * char_width_eng) \div 2)
         IN <<RectOp(btn_x, box_height - 25, button_width, 20,
                     IF is_selected THEN highlight_bg_color ELSE bg_color)>>
            \o DisplayTextLineOps(option, text_x, box_height - 20,
                                  IF is_selected THEN highlight_text_color ELSE text_color,
                                  None, None)
            \o ButtonsFrom(options, i + 1, selected_option_index)

\* the message box without the clear_screen of line 142
ShowMessageBoxOpsNoClear(message_lines, title, options, selected_option_index) ==
    (IF Truthy(title)
     THEN DisplayTextMultilineOps(title[1], padding, padding, SCREEN_WIDTH - 2 * padding,
                                  highlight_text_color, Some(bg_color))
     ELSE <<>>)
    \o MessageLinesFrom(message_lines, 1,
           padding + (IF Truthy(title) THEN char_height + line_spacing * 2 ELSE 0))
    \o (IF Truthy(options) THEN ButtonsFrom(options[1], 0, selected_option_index) ELSE <<>>)

ShowMessageBoxOps(message_lines, title, options, selected_option_index) ==
    ClearScreenOps(None)
    \o (IF Truthy(title)
        THEN DisplayTextMultilineOps(title[1], padding, padding, SCREEN_WIDTH - 2 * padding,
                                     highlight_text_color, Some(bg_color))
        ELSE <<>>)
    \o MessageLinesFrom(message_lines, 1,
           padding + (IF Truthy(title) THEN char_height + line_spacing * 2 ELSE 0))
    \o (IF Truthy(options) THEN ButtonsFrom(options[1], 0, selected_option_index) ELSE <<>>)

\* no line, "Hi", and "Hi" followed by "A B"
MessageLines == {<<>>, << <<72, 105>> >>, << <<72, 105>>, <<65, 32, 66>> >>}
\* the default title "tip", and none
MessageTitles == {Some(<<116, 105, 112>>), None}
\* no buttons, "OK", and "Y" / "N"
MessageOptions == {None, Some(<< <<79, 75>> >>), Some(<< <<89>>, <<78>> >>)}
ShowMessageBox ==
    \E message_lines \in MessageLines, title \in MessageTitles, options \in MessageOptions,
       selected_option_index \in {0, 1} :
        /\ ops' = ShowMessageBoxOps(message_lines, title, options, selected_option_index)
        /\ lineArgs' = None
        /\ uiCall' = [fn |-> "show_message_box",
                      args |-> <<message_lines, title, options, selected_option_index>>]
        /\ UNCHANGED UiFrame

\* show_welcome_screen, line 177-183: "Gambling bot" centred, "Loading..." under it
WelcomeTitle == <<71, 97, 109, 98, 108, 105, 110, 103, 32, 98, 111, 116>>
WelcomeLoading == <<76, 111, 97, 100, 105, 110, 103, 46, 46, 46>>
ShowWelcomeScreenOps ==
    ClearScreenOps(Some(BLUE))
    \o DisplayTextLineOps(WelcomeTitle,
                          (SCREEN_WIDTH - Len(WelcomeTitle) * char_width_eng) \div 2,
                          (SCREEN_HEIGHT \div 2) - 10, YELLOW, None, None)
    \o DisplayTextLineOps(WelcomeLoading, 10, (SCREEN_HEIGHT \div 2) + 10, WHITE, None, None)
ShowWelcomeScreen ==
    /\ ops' = ShowWelcomeScreenOps
    /\ lineArgs' = None
    /\ uiCall' = [fn |-> "show_welcome_screen", args |-> <<>>]
    /\ UNCHANGED UiFrame

\* C25 (as claimed): after any draw_menu call returns, the retained state {items,
\* selected_index, start_y, title} equals the arguments of that call, after a full
\* repaint as well as after a partial repaint.
C25_RetainedStateIsLastCall ==
    Called =>
        last_menu_state = [selected_idx |-> CurM.selected_index, items |-> Some(CurM.items),
                           start_y |-> CurM.start_y, title_text |-> CurM.title]

\* a step that is a poll: neither the clock nor the signal moves
PollStep == now' = now /\ btn' = btn
\* the poll sees the signal differ from the level it last saw, or sees it released
\* while the detector is Pressed
ChangeObserved ==
    \/ btn # last_button_value_for_click
    \/ (button_state_for_click = 1 /\ btn = 1)
InDebounceWindow == ticks_diff(now, last_button_change_time) < debounce_ms

\* C27: a signal change observed by check_for_single_click before the debounce
\* window has elapsed since the last accepted transition is ignored and does not
\* reset the window: the phase, the last-transition timestamp and the press-start
\* timestamp are unchanged by that poll, and the poll reports no click.
C27_ChangeInWindowIgnored ==
    [][ (PollStep /\ ChangeObserved /\ InDebounceWindow) =>
            /\ button_state_for_click' = button_state_for_click
            /\ last_button_change_time' = last_button_change_time
            /\ button_down_start_time' = button_down_start_time
            /\ ~clicked'
      ]_vars

\* C27 witness: the signal went active and was polled inside the debounce window
\* that follows construction: the detector is still Idle with its timestamps as
\* constructed, the poll returned False and has recorded the active level.
C27_Witness ==
    /\ nFlips = 1 /\ btn = 0 /\ lastPoll >= flipT2 /\ lastPoll > 0
    /\ ticks_diff(lastPoll, last_button_change_time) < debounce_ms
    /\ last_button_value_for_click = 0
    /\ button_state_for_click = 0 /\ last_button_change_time = 0
    /\ button_down_start_time = 0 /\ ~clicked

\* C28 (as claimed): no press is lost: when the signal goes active while the
\* detector is Idle and stays active, the detector is Pressed at the latest after
\* the first poll made once the debounce window since the last transition has
\* elapsed (polls faster than the debounce window), also for a press that begins
\* inside the debounce window that follows the previous transition or construction.
C28_NoPressLost ==
    (/\ nFlips >= 1 /\ btn = 0 /\ stAtT2 = 0 /\ ~slow
     /\ lastPoll > flipT2
     /\ ticks_diff(lastPoll, last_button_change_time) > debounce_ms)
    => button_state_for_click = 1

(***************************************************************************)
(* Claims about is_button_down and about repeated clicks.                  *)
(***************************************************************************)
\* the level before the last change had lasted longer than the debounce window
PreviousLevelStable == nFlips = 1 \/ (nFlips >= 2 /\ flipT2 - flipT1 > debounce_ms)

\* C31 (as claimed): is_button_down returns the debounced state: a change of the
\* raw level is reflected in the returned value only after the new level has been
\* stable for more than debounce_ms; a call made within the debounce window after
\* a change of a stable level still returns the state of the previous level.
C31_DownIsDebounced ==
    (/\ down.t # -1 /\ PreviousLevelStable
     /\ down.t >= flipT2 /\ down.t - flipT2 <= debounce_ms)
    => down.ret = (btn = 1)

\* C33: any two polls of check_for_single_click that return True are separated by
\* more than two debounce windows, and between them the detector has passed
\* through Idle and Pressed again: the poll that returns True leaves it Idle, and
\* the press it ends was accepted after the previous True poll.
C33_ClicksTwoWindowsApart ==
    /\ clickTs[1] # -1 => clickTs[2] - clickTs[1] > 2 * debounce_ms
    /\ clicked =>
          /\ button_state_for_click = 0
          /\ clickTs[2] = lastPoll
          /\ button_down_start_time < clickTs[2]
          /\ clickTs[1] # -1 => button_down_start_time > clickTs[1]

\* C33 witness: a poll has just returned True for the second time.
C33_Witness ==
    /\ clicked /\ clickTs[1] # -1 /\ clickTs[2] = now

\* C34 (as claimed): calling is_button_down between polls of
\* check_for_single_click does not change their results: each poll returns what
\* the same poll returns on a detector that saw the same signal at the same poll
\* times without any is_button_down call.
C34_DownDoesNotDisturbClicks == clicked = ref.clicked

\* what the screen shows in the band of row k once the calls in ops are painted:
\* the row's rectangle was filled in the colour of its state, nothing painted
\* later fills the screen or that band again, and the row's text was drawn
RowBandOverlaps(o, k, m) ==
    /\ o.op = "fill_rect"
    /\ o.y < RowY(k, m) + char_height + line_spacing
    /\ o.y + o.h > RowY(k, m)
RowShown(k, m, highlighted) ==
    /\ \E n \in OpsOf("fill_rect") :
           /\ ops[n] = RowRect(k, m, highlighted)
           /\ \A j \in (n + 1) .. Len(ops) :
                  ops[j].op # "fill" /\ ~RowBandOverlaps(ops[j], k, m)
    /\ RowTextDrawn(k, m, highlighted)

\* C32 (as claimed): when a call draw_menu(items, k, title, start_y) returns, the
\* screen shows every row of items at its row position with row k highlighted and
\* every other row unhighlighted, for every title value including none.
C32_MenuShowsEveryRow ==
    Called => \A k \in 0 .. (Len(CurM.items) - 1) : RowShown(k, CurM, k = CurM.selected_index)

(***************************************************************************)
(* Claims about fill_rect (checked under SpecFill).                        *)
(***************************************************************************)
R == rectArgs[1]
CeilDiv(a, b) == (a + b - 1) \div b
\* the three commands of a set_window take five bus writes; the pixel transfers
\* are the writes after them
WindowWrites == Len(SetWindow(0, 0, 0, 0, 0))
Transfers == IF Len(bus) > WindowWrites THEN SubSeq(bus, WindowWrites + 1, Len(bus)) ELSE <<>>
\* the pixels of transfers lo..hi (summed by halves), and of all of them
RECURSIVE SumRepRange(_, _, _)
SumRepRange(seq, lo, hi) ==
    IF lo > hi THEN 0
    ELSE IF lo = hi THEN seq[lo].rep
    ELSE LET mid == (lo + hi) \div 2
         IN SumRepRange(seq, lo, mid) + SumRepRange(seq, mid + 1, hi)
SumRep(seq) == SumRepRange(seq, 1, Len(seq))
\* the intersection of the rectangle with the canvas, as inclusive bounds
ClipX0 == Max(R.x, 0)
ClipY0 == Max(R.y, 0)
ClipX1 == Min(R.x + R.w - 1, SCREEN_WIDTH - 1)
ClipY1 == Min(R.y + R.h - 1, SCREEN_HEIGHT - 1)
ClipEmpty == ClipX0 > ClipX1 \/ ClipY0 > ClipY1
FullyInside ==
    /\ R.w >= 1 /\ R.h >= 1 /\ R.x >= 0 /\ R.y >= 0
    /\ R.x + R.w <= SCREEN_WIDTH /\ R.y + R.h <= SCREEN_HEIGHT

\* C8: for a rectangle fully inside the canvas with w >= 1 and h >= 1, fill_rect
\* issues exactly one set_window with bounds (x, y, x+w-1, y+h-1) and then streams
\* exactly w*h pixels of the colour in ceil(w*h / 512) transfers of at most 512
\* pixels each.
C8_FillInsideChunks ==
    (rectArgs # None /\ FullyInside) =>
        /\ winCalls = << <<R.x, R.y, R.x + R.w - 1, R.y + R.h - 1>> >>
        /\ Len(bus) >= WindowWrites
        /\ SubSeq(bus, 1, WindowWrites)
             = SetWindow(rotation, R.x, R.y, R.x + R.w - 1, R.y + R.h - 1)
        /\ Len(Transfers) = CeilDiv(R.w * R.h, chunk_size)
        /\ \A n \in DOMAIN Transfers :
               /\ Transfers[n].dc = 1
               /\ Transfers[n].data = Pack16(R.color)
               /\ Transfers[n].rep >= 1 /\ Transfers[n].rep <= chunk_size
        /\ SumRep(Transfers) = R.w * R.h

\* C8 witness: a fill inside the canvas that took more than one transfer, the last
\* one shorter than the chunk capacity.
C8_Witness ==
    /\ rectArgs # None /\ FullyInside
    /\ Len(Transfers) = 2
    /\ Transfers[1].rep = chunk_size /\ Transfers[2].rep < chunk_size
    /\ SumRep(Transfers) = R.w * R.h

\* C9 (as claimed): for a rectangle that lies partially outside the canvas (past
\* the right or bottom edge, or with negative x or y) the window set by fill_rect
\* is the intersection of the rectangle with the canvas.
C9_WindowIsIntersection ==
    (rectArgs # None /\ R.w >= 1 /\ R.h >= 1 /\ ~FullyInside /\ ~ClipEmpty) =>
        winCalls = << <<ClipX0, ClipY0, ClipX1, ClipY1>> >>

\* C10 (as claimed): fill_rect on a rectangle whose clipped area is empty (fully
\* outside the canvas, or of zero width or height) is a no-op: no set_window and
\* no pixel transfer.
C10_EmptyRectNoOp ==
    (rectArgs # None /\ ClipEmpty) => (winCalls = <<>> /\ bus = <<>>)

\* the whole-canvas fill of the example: fill_rect(0, 0, 240, 320, BLACK)
WholeCanvasFill ==
    rectArgs = Some([x |-> 0, y |-> 0, w |-> SCREEN_WIDTH, h |-> SCREEN_HEIGHT,
                     color |-> BLACK])

\* C11 (as claimed): on the 240x320 canvas with chunk capacity 512,
\* fill_rect(0,0,240,320,BLACK) streams 76800 pixels in 150 transfers, of which
\* 149 are full 512-pixel chunks and the last one holds 256 pixels.
C11_WholeFill149Plus256 ==
    WholeCanvasFill =>
        /\ SumRep(Transfers) = 76800
        /\ Len(Transfers) = 150
        /\ \A n \in 1 .. 149 : Transfers[n].rep = 512
        /\ Transfers[150].rep = 256

\* C11 (amended): fill_rect(0,0,240,320,BLACK) streams 76800 pixels of BLACK in
\* 150 transfers, every one of them a full 512-pixel chunk (76800 = 150 * 512).
C11_WholeFill150Full ==
    WholeCanvasFill =>
        /\ SumRep(Transfers) = 76800
        /\ Len(Transfers) = 150
        /\ \A n \in 1 .. 150 :
               /\ Transfers[n].rep = 512
               /\ Transfers[n].dc = 1
               /\ Transfers[n].data = Pack16(BLACK)

\* C11 witness: the whole-canvas fill was made and its last transfer is full.
C11_Witness ==
    /\ WholeCanvasFill
    /\ Len(Transfers) = 150
    /\ Transfers[Len(Transfers)].rep = chunk_size


(***************************************************************************)
(* Claims about ST7789.__init__ and reset (checked under SpecConstruct).   *)
(***************************************************************************)
IsPrefix(a, b) == Len(a) <= Len(b) /\ a = SubSeq(b, 1, Len(a))
IsOpcodeEvent(e) == e.line = "spi" /\ e.role = 0
IsResetEvent(e) == e.line = "reset"
IsCommandPhase(ph) == ph.dc = 0
\* the opcode writes seen on the wire, and the bus writes that are opcodes
CmdEvents == SelectSeq(wire, IsOpcodeEvent)
CmdPhases == SelectSeq(bus, IsCommandPhase)
OpcodesSent == [n \in DOMAIN CmdPhases |-> CmdPhases[n].data[1]]
\* the writes to the reset line
RstEvents == SelectSeq(wire, IsResetEvent)
\* the bus writes after the first n
BusAfter(n) == IF Len(bus) > n THEN SubSeq(bus, n + 1, Len(bus)) ELSE <<>>

\* C12: display initialization issues on the bus, in exactly this order and with no
\* other command in between, software-reset, (>= 150 ms), sleep-out, (>= 255 ms),
\* pixel-format selection with payload 0x55 (16-bit), the orientation-register write
\* (one payload byte), display-on, (>= 100 ms), and then the full-screen fill with the
\* default colour; no pixel data is written before display-on.
C12_InitSequence ==
    LET head(m) == <<Phase(0, 1, <<SWRESET>>), Phase(0, 1, <<SLPOUT>>),
                     Phase(0, 1, <<COLMOD>>), Phase(1, 1, <<85>>),
                     Phase(0, 1, <<MADCTL>>), Phase(1, 1, <<m>>),
                     Phase(0, 1, <<DISPON>>)>>
        filled == BusAfter(7)
    IN /\ IsPrefix(OpcodesSent, <<SWRESET, SLPOUT, COLMOD, MADCTL, DISPON, CASET, RASET, RAMWR>>)
       /\ \E m \in 0 .. 255 : IsPrefix(bus, head(m)) \/ IsPrefix(head(m), bus)
       /\ Len(CmdEvents) >= 2 => CmdEvents[2].t - CmdEvents[1].t >= 150
       /\ Len(CmdEvents) >= 3 => CmdEvents[3].t - CmdEvents[2].t >= 255
       /\ Len(CmdEvents) >= 6 => CmdEvents[6].t - CmdEvents[5].t >= 100
       /\ Constructed =>
              /\ Len(OpcodesSent) = 8
              /\ Len(filled) > 5
              /\ \A n \in 1 .. 5 : filled[n].rep = 1
              /\ \A n \in 6 .. Len(filled) :
                     filled[n].dc = 1 /\ filled[n].data = <<255, 255>> /\ filled[n].rep >= 1
              /\ SumRepRange(filled, 6, Len(filled)) = SCREEN_WIDTH * SCREEN_HEIGHT

\* C12 witness: a driver with a chip-select line and rotation 1 is constructed, its
\* sleeps having taken longer than asked, and the fill has been streamed.
C12_Witness ==
    /\ Constructed /\ pins.cs /\ rotation = 1 /\ oversleep > 0
    /\ Len(OpcodesSent) = 8
    /\ bus[Len(bus)].dc = 1 /\ bus[Len(bus)].data = <<255, 255>>

\* the writes reset() made to the reset line: those after the one Pin.init made
ResetWrites == IF Len(RstEvents) > 1 THEN SubSeq(RstEvents, 2, Len(RstEvents)) ELSE <<>>
ResetLevels == [n \in DOMAIN ResetWrites |-> ResetWrites[n].level]
NoResetLineNoEffect ==
    ~pins.reset => (RstEvents = <<>> /\ (CmdEvents # <<>> => CmdEvents[1].t = 0))

\* C13 (as claimed): with a reset line configured, reset() drives the line low for at
\* least 100 ms, then high for at least 100 ms, then releases it for at least 200 ms,
\* all before the first command byte is written to the bus; with no reset line
\* reset() changes nothing and writes nothing.
C13_ResetLowHighRelease ==
    /\ (pins.reset /\ CmdEvents # <<>>) =>
           /\ Len(ResetWrites) = 3
           /\ ResetLevels[1] = 0 /\ ResetWrites[2].t - ResetWrites[1].t >= 100
           /\ ResetLevels[2] = 1 /\ ResetWrites[3].t - ResetWrites[2].t >= 100
           /\ CmdEvents[1].t - ResetWrites[3].t >= 200
    /\ NoResetLineNoEffect

\* C13 (amended): with a reset line configured, reset() drives the line high for at
\* least 100 ms, then low for at least 100 ms, then high again followed by at least
\* 200 ms, all before the first command byte is written to the bus; with no reset
\* line reset() changes nothing and writes nothing.
C13_ResetHighLowHigh ==
    /\ (pins.reset /\ CmdEvents # <<>>) =>
           /\ ResetLevels = <<1, 0, 1>>
           /\ ResetWrites[2].t - ResetWrites[1].t >= 100
           /\ ResetWrites[3].t - ResetWrites[2].t >= 100
           /\ CmdEvents[1].t - ResetWrites[3].t >= 200
    /\ (pins.reset /\ CmdEvents = <<>>) => IsPrefix(ResetLevels, <<1, 0, 1>>)
    /\ NoResetLineNoEffect

\* C13 witness: the reset pulse was driven and the first command byte was then
\* written.
C13_Witness ==
    /\ pins.reset /\ Len(CmdEvents) = 1
    /\ ResetLevels = <<1, 0, 1>>
    /\ CmdEvents[1].t >= 400

(***************************************************************************)
(* Claims about set_window, pixel and the framing of bus writes (checked   *)
(* under SpecDraw).                                                        *)
(***************************************************************************)
Op == opArgs[1]
IsOp(kind) == opArgs # None /\ Op.op = kind
\* a bound below 65536 as two bytes, most significant first
Be16(v) == <<v \div 256, v % 256>>
AxesSwapped == rotation \in {1, 3}

\* C14: set_window(x0,y0,x1,y1) emits exactly three command transactions in order:
\* column-address with the payload of two big-endian 16-bit bounds, row-address
\* with the payload of two big-endian 16-bit bounds, memory-write with no payload;
\* for rotations 0 and 2 the column payload is (x0,x1) and the row payload (y0,y1),
\* for rotations 1 and 3 the column payload is (y0,y1) and the row payload (x0,x1).
C14_SetWindowThreeCommands ==
    IsOp("set_window") =>
        LET xs == Be16(Op.x0) \o Be16(Op.x1)
            ys == Be16(Op.y0) \o Be16(Op.y1)
        IN bus = <<Phase(0, 1, <<CASET>>), Phase(1, 1, IF AxesSwapped THEN ys ELSE xs),
                   Phase(0, 1, <<RASET>>), Phase(1, 1, IF AxesSwapped THEN xs ELSE ys),
                   Phase(0, 1, <<RAMWR>>)>>

\* C14 witness: a set_window under rotation 3 whose bounds exceed one byte; the
\* column payload holds the y bounds.
C14_Witness ==
    /\ IsOp("set_window") /\ rotation = 3
    /\ Op.x0 = 5 /\ Op.x1 = 300 /\ Op.y0 = 0 /\ Op.y1 = 319
    /\ bus[2].data = <<0, 0, 1, 63>>
    /\ bus[4].data = <<0, 5, 1, 44>>

\* the level last written to a pin before wire event n (-1: never written)
LevelBefore(line, n) ==
    LET idx == {k \in 1 .. (n - 1) : wire[k].line = line}
    IN IF idx = {} THEN -1
       ELSE wire[CHOOSE k \in idx : \A j \in idx : j <= k].level
SpiWrites == {n \in DOMAIN wire : wire[n].line = "spi"}

\* C15: every command transaction puts the dc line in command state (0), asserts
\* chip select, transmits exactly one opcode byte and releases chip select; a
\* payload or pixel buffer is transmitted in its own phase with the dc line in data
\* state (1) and chip select is released after it; so no opcode is sent in data
\* state, no data in command state, and chip select is released when an operation
\* has returned.  (Each line only if the driver was given it.)
C15_Framing ==
    /\ \A n \in SpiWrites :
           /\ wire[n].role = 0 => (wire[n].rep = 1 /\ Len(wire[n].data) = 1)
           /\ pins.dc => LevelBefore("dc", n) = wire[n].role
           /\ pins.cs => /\ LevelBefore("cs", n) = 0
                         /\ n < Len(wire) /\ wire[n + 1] = PinEv(wire[n].t, "cs", 1)
    /\ (pins.cs /\ wire # <<>>) => LevelBefore("cs", Len(wire) + 1) = 1
    /\ Cardinality(SpiWrites) = Len(bus)

\* C15 witness: a pixel was written by a driver that has both a dc and a cs line:
\* three opcodes, two payloads and the pixel went out, chip select toggled for each.
C15_Witness ==
    /\ IsOp("pixel") /\ pins.dc /\ pins.cs
    /\ Cardinality(SpiWrites) = 6
    /\ Len(wire) = 24

\* C18: pixel(x,y,color) with x outside [0,width) or y outside [0,height) performs no
\* bus transaction; with in-bounds coordinates it issues exactly one
\* set_window(x,y,x,y) followed by exactly one 2-byte data write.
C18_PixelBoundsChecked ==
    IsOp("pixel") =>
        IF Op.x0 < 0 \/ Op.x0 >= SCREEN_WIDTH \/ Op.y0 < 0 \/ Op.y0 >= SCREEN_HEIGHT
        THEN bus = <<>> /\ winCalls = <<>> /\ wire = <<>>
        ELSE /\ winCalls = << <<Op.x0, Op.y0, Op.x0, Op.y0>> >>
             /\ Len(bus) = WindowWrites + 1
             /\ SubSeq(bus, 1, WindowWrites) = SetWindow(rotation, Op.x0, Op.y0, Op.x0, Op.y0)
             /\ bus[Len(bus)] = Phase(1, 1, Be16(Op.color))

\* C18 witness: a pixel one column past the right edge was asked for and nothing
\* was written.
C18_Witness ==
    /\ IsOp("pixel") /\ Op.x0 = SCREEN_WIDTH /\ Op.y0 = 0
    /\ bus = <<>>

(***************************************************************************)
(* Claims about ST7789.text (checked under SpecText).                      *)
(***************************************************************************)
\* the region text draws: from (x, y), one character width per character and
\* font_height rows, cut at the right and bottom edges of the canvas
RegionW == Min(Op.x0 + Len(Op.s) * TextCharWidth(Op.font_height), SCREEN_WIDTH) - Op.x0
RegionH == Min(Op.y0 + Op.font_height, SCREEN_HEIGHT) - Op.y0
RegionVisible == RegionW > 0 /\ RegionH > 0
\* the colour the claim gives the pixel in column px, row py of the region
ClaimedColor(px, py) ==
    IF FbPixelSet(Op.font, Op.s, px, py) THEN Op.color
    ELSE IF Op.bg # None THEN Op.bg[1]
    ELSE BLACK

VisX0 == Max(Op.x0, 0)
VisY0 == Max(Op.y0, 0)
VisX1 == Min(Op.x0 + Len(Op.s) * TextCharWidth(Op.font_height), SCREEN_WIDTH) - 1
VisY1 == Min(Op.y0 + Op.font_height, SCREEN_HEIGHT) - 1
VisEmpty == VisX0 > VisX1 \/ VisY0 > VisY1

\* C21 (as claimed): text whose region exceeds the screen bound on either axis is
\* clipped to the visible region before the buffer is sized: the window set lies
\* within [0,width) x [0,height), the buffer holds exactly the clipped region's
\* pixels (2 bytes each), and text entirely off-screen issues no bus transaction.
C21_TextClippedToCanvas ==
    IsOp("text") =>
        IF VisEmpty THEN bus = <<>> /\ winCalls = <<>>
        ELSE /\ winCalls = << <<VisX0, VisY0, VisX1, VisY1>> >>
             /\ Len(bus) = WindowWrites + 1
             /\ bus[Len(bus)].rep = 1
             /\ Len(bus[Len(bus)].data) = 2 * (VisX1 - VisX0 + 1) * (VisY1 - VisY0 + 1)

(***************************************************************************)
(* Claims about display_text_line (checked under SpecLine).                *)
(***************************************************************************)
IsRamwr(ph) == ph.dc = 0 /\ ph.data = <<RAMWR>>
IsDataPhase(ph) == ph.dc = 1
\* set_window calls in a sequence of bus writes (each ends with one RAMWR), and
\* the data writes that are not the two payloads of a set_window
WindowSets(b) == Len(SelectSeq(b, IsRamwr))
PixelTransfers(b) == Len(SelectSeq(b, IsDataPhase)) - 2 * WindowSets(b)
Transactions(b) == WindowSets(b) + PixelTransfers(b)
L == lineArgs[1]
\* the bus writes of the driver calls the line made
LineBus == OpsBus(rotation, L.font, ops)

\* C20 (as claimed): display_text_line of an n-character text batches the pixels of
\* all glyphs: the number of window-set plus pixel-transfer transactions it issues
\* is the same for every n >= 1 (what the same call issues for its first character
\* alone) and does not grow with the number of characters drawn.
C20_LineTransactionsConstant ==
    (lineArgs # None /\ Len(L.text) >= 1) =>
        Transactions(LineBus)
          = Transactions(OpsBus(rotation, L.font,
                DisplayTextLineOps(<<L.text[1]>>, L.x, L.y, L.color, L.bg, L.max_width)))

\* C26 (as claimed): for every pixel-writing operation (here fill_rect) and all
\* arguments, including rectangles clipped by the canvas edge, the number of pixels
\* streamed after its set_window equals (x1-x0+1)*(y1-y0+1) of the window set.
C26_StreamedEqualsWindow ==
    rectArgs # None =>
        LET win == winCalls[1]
        IN SumRep(Transfers) = (win[3] - win[1] + 1) * (win[4] - win[2] + 1)

(***************************************************************************)
(* Claims about a failing bus (checked under SpecFault).                   *)
(***************************************************************************)
F == fault[1]
FaultFreeBus == FillRectBus(rotation, R.x, R.y, R.w, R.h, R.color)

\* C24: if a bus write fails during a driver operation (for example in the middle
\* of a chunked fill), the operation is not retried, no later chunk or command of
\* it is transmitted, and the error propagates to the caller: a fill either
\* completes all its chunks or fails partway with the error.
C24_FailurePropagates ==
    fault # None =>
        IF F.at = 0
        THEN ~F.raised /\ bus = FaultFreeBus /\ F.calls = FaultFreeBus
        ELSE /\ F.raised
             /\ F.calls = SubSeq(FaultFreeBus, 1, F.at)
             /\ bus = SubSeq(FaultFreeBus, 1, F.at - 1)
             /\ Len(bus) < Len(FaultFreeBus)

\* C24 witness: the fill of the whole canvas failed at its 75th chunk: 74 chunks
\* were transmitted and the call raised.
C24_Witness ==
    /\ fault # None /\ WholeCanvasFill
    /\ F.at = WindowWrites + 75 /\ F.raised
    /\ Len(Transfers) = 74

(***************************************************************************)
(* Claims about calibrate (checked under SpecCal).                          *)
(***************************************************************************)
CalibratedLast == calWindow # -1 /\ calRuns > 0

\* C22: when zero samples were collected in the calibration window (for example
\* with a duration of 0), the prior center_x and center_y are left unchanged.
C22_ZeroSamplesKeepCenters ==
    (CalibratedLast /\ Len(calXs) = 0) =>
        /\ x_center = calPrevCenters[1]
        /\ y_center = calPrevCenters[2]

\* C22 witness: a calibration with a window of 0 took no sample after an earlier
\* calibration had moved the centres away from their defaults, and they stayed.
C22_Witness ==
    /\ CalibratedLast /\ calWindow = 0 /\ Len(calXs) = 0
    /\ calPrevCenters # <<X_CENTER, Y_CENTER>>
    /\ <<x_center, y_center>> = calPrevCenters

IsFloorAverage(c, q) == Len(q) * c <= SumSeq(q) /\ SumSeq(q) < Len(q) * (c + 1)

\* C23: calibrate with n >= 1 collected samples overwrites center_x and center_y
\* with the average of the sampled x values and of the sampled y values (sum
\* divided by n, rounded down), and every later direction classification uses the
\* new centres.
C23_AverageBecomesCenter ==
    (CalibratedLast /\ Len(calXs) >= 1) =>
        /\ Len(calYs) = Len(calXs)
        /\ IsFloorAverage(x_center, calXs)
        /\ IsFloorAverage(y_center, calYs)
        /\ PolledHere =>
            \* x_center and y_center are those averages by the conjuncts above
            LET xc == x_center
                yc == y_center
                crossesX == x_val > xc + threshold \/ x_val < xc - threshold
            IN
            /\ x_val > xc + threshold => dirClass = "right"
            /\ x_val < xc - threshold => dirClass = "left"
            /\ (~crossesX /\ y_val > yc + threshold) => dirClass = "down"
            /\ (~crossesX /\ y_val < yc - threshold) => dirClass = "up"
            /\ (~crossesX /\ y_val <= yc + threshold /\ y_val >= yc - threshold)
                   => dirClass = "center"

\* C23 witness: two samples whose sum is odd were averaged (rounded down), the
\* second one taken with the stick held right and up of the default centres, and
\* the poll after the calibration classified that position as the centre.
C23_Witness ==
    /\ CalibratedLast /\ Len(calXs) = 2
    /\ SumSeq(calXs) % 2 = 1
    /\ x_center = (SumSeq(calXs) - 1) \div 2
    /\ x_val = X_CENTER + threshold + 1
    /\ PolledHere /\ dirClass = "center"

\* C35 (as claimed): while the stick is held in one non-center zone, any
\* interleaving of get_direction(allow_repeat=False) and
\* get_direction(allow_repeat=True) polls emits that direction at most once per
\* repeat delay: two polls of the hold that both return the direction are more
\* than 150 ms apart.
C35_MixedPollsOncePerDelay ==
    (PolledHere /\ heldEmits >= 2 /\ dirRet # "center")
        => emitT - prevEmitT > direction_repeat_delay_ms

(***************************************************************************)
(* Claims about the other screens of UIManager (checked under SpecUI).     *)
(***************************************************************************)
\* C29: the retained menu state is mutated only by draw_menu: clear_screen,
\* display_text_line, display_text_multiline, show_message_box and
\* show_welcome_screen leave it unchanged, and show_message_box and
\* show_welcome_screen repaint the full screen (they begin by filling it) whatever
\* the retained state is.
C29_OnlyDrawMenuMutates ==
    [][ /\ uiCall'.fn \in {"clear_screen", "display_text_line", "display_text_multiline",
                           "show_message_box", "show_welcome_screen"}
        /\ last_menu_state' = last_menu_state
        /\ uiCall'.fn = "show_message_box" =>
               (Len(ops') >= 1 /\ ops'[1] = FillOp(bg_color))
        /\ uiCall'.fn = "show_welcome_screen" =>
               (Len(ops') >= 1 /\ ops'[1] = FillOp(BLUE))
      ]_vars

\* C29 witness: a message box with two buttons was shown: the screen was filled
\* first, both buttons were drawn, and the retained menu state is as constructed.
C29_Witness ==
    /\ uiCall.fn = "show_message_box"
    /\ uiCall.args[3] # None /\ Len(uiCall.args[3][1]) = 2
    /\ ops[1] = FillOp(bg_color)
    /\ Cardinality(OpsOf("fill_rect")) >= 2
    /\ last_menu_state = InitMenuState

\* the glyph the claim gives a code point: itself when printable ASCII, else '?'
ClaimedGlyph(c) == IF c >= 32 /\ c <= 126 THEN c ELSE 63
TextOpsDrawn == SelectSeq(ops, LAMBDA o : o.op = "text")

\* C30 (as claimed): every character outside the supported set (printable ASCII)
\* passed to the text-drawing API is rendered as the placeholder glyph '?', and
\* every character inside the set is rendered as itself.
C30_UnsupportedAsPlaceholder ==
    (lineArgs # None /\ L.max_width = None) =>
        /\ Len(TextOpsDrawn) = Len(L.text)
        /\ \A k \in 1 .. Len(L.text) : TextOpsDrawn[k].s = <<ClaimedGlyph(L.text[k])>>

(***************************************************************************)
(* The games.  main.py constructs a game when it is picked in the main     *)
(* menu, calls start_game once and then game_loop_tick once per pass of    *)
(* the main loop until the tick returns the game's end marker.  A tick     *)
(* polls the joystick at most once for a direction and once for a click;   *)
(* both results are inputs of the tick.  The field `running` is main.py's  *)
(* current_state being the RUNNING state of the game; `shown` is what the  *)
(* last _update_display put on the screen.  When the tick returns the end  *)
(* marker main.py drops the instance; an exception ends the main loop and  *)
(* leaves the instance as it is (raised).                                  *)
(***************************************************************************)
Directions == {"center", "up", "down", "left", "right"}
NoChoice == "None"
\* no instance: game_te_instance, game_ps_instance, game_auction_instance are None
NoGame == [running |-> FALSE, raised |-> FALSE]

(***************************************************************************)
(* game_trust_evolution.py                                                 *)
(***************************************************************************)
TE_TOTAL_ROUNDS == 10
TE_ACTIONS == <<"C", "D">>
TE_STATE_INIT == 0
TE_STATE_PLAYER_CHOICE == 1
TE_STATE_CALCULATE == 2
TE_STATE_SHOW_ROUND_RESULT == 3
TE_STATE_GAME_OVER == 4

\* calc_score(player, computer): <<player's gain, computer's gain>>
calc_score(player, computer) ==
    IF player = "C" /\ computer = "C" THEN <<3, 3>>
    ELSE IF player = "C" /\ computer = "D" THEN <<0, 5>>
    ELSE IF player = "D" /\ computer = "C" THEN <<5, 0>>
    ELSE <<1, 1>>

\* _update_display: the screen of the current state; the title of the choice
\* menu and of the round result names round rounds_played + 1
TE_UpdateDisplay(g) ==
    [g EXCEPT !.shown = [state |-> g.current_game_state,
                         round |-> IF g.current_game_state \in {TE_STATE_PLAYER_CHOICE,
                                                                TE_STATE_SHOW_ROUND_RESULT}
                                   THEN g.rounds_played + 1 ELSE 0,
                         selection |-> IF g.current_game_state = TE_STATE_PLAYER_CHOICE
                                       THEN g.player_current_selection ELSE 0]]

\* GameTrustEvolution.__init__; scored counts the rounds scored since start_game
TE_Constructed ==
    [running |-> FALSE, raised |-> FALSE, ret |-> "None",
     rounds_played |-> 0, player_score |-> 0, computer_score |-> 0,
     last_player_action |-> "C", last_computer_action |-> "C",
     current_game_state |-> TE_STATE_INIT, player_current_selection |-> 0,
     this_round_comp_choice |-> NoChoice, this_round_player_choice |-> NoChoice,
     this_round_player_score_gain |-> 0, this_round_computer_score_gain |-> 0,
     shown |-> [state |-> -1, round |-> 0, selection |-> 0], scored |-> 0]

\* main.py, STATE_GAME_TE_INIT: a new instance, start_game, then RUNNING
TE_StartGame ==
    /\ ~te.running
    /\ te' = TE_UpdateDisplay([TE_Constructed EXCEPT !.running = TRUE])
    /\ UNCHANGED <<now, step, clickVars, dirVars, menuVars, dispVars, ps, au>>

\* _get_player_choice_from_joystick: <<the instance after it, the value returned>>
TE_PlayerChoice(g, direction, click) ==
    LET g1 == IF direction \in {"up", "left"}
              THEN TE_UpdateDisplay([g EXCEPT !.player_current_selection = 0])
              ELSE IF direction \in {"down", "right"}
              THEN TE_UpdateDisplay([g EXCEPT !.player_current_selection = 1])
              ELSE g
    IN <<g1, IF click THEN TE_ACTIONS[g1.player_current_selection + 1] ELSE NoChoice>>

\* the test of lines 220 and 255
TE_RoundsDone(g) == g.rounds_played >= TE_TOTAL_ROUNDS - 1

\* game_loop_tick: the instance after the tick; comp is the action that
\* agent.choose_action draws
TE_Tick(g, direction, click, comp) ==
    IF g.current_game_state = TE_STATE_INIT
    THEN TE_UpdateDisplay([g EXCEPT !.current_game_state = TE_STATE_PLAYER_CHOICE])
    ELSE IF g.current_game_state = TE_STATE_PLAYER_CHOICE
    THEN IF TE_RoundsDone(g)
         THEN TE_UpdateDisplay([g EXCEPT !.current_game_state = TE_STATE_GAME_OVER])
         ELSE LET r == TE_PlayerChoice(g, direction, click)
              IN  IF r[2] # NoChoice
                  THEN [r[1] EXCEPT !.this_round_player_choice = r[2],
                                    !.this_round_comp_choice = comp,
                                    !.current_game_state = TE_STATE_CALCULATE]
                  ELSE r[1]
    ELSE IF g.current_game_state = TE_STATE_CALCULATE
    THEN LET sc == calc_score(g.this_round_player_choice, g.this_round_comp_choice)
         IN  TE_UpdateDisplay(
               [g EXCEPT !.player_score = @ + sc[1],
                         !.computer_score = @ + sc[2],
                         !.this_round_player_score_gain = sc[1],
                         !.this_round_computer_score_gain = sc[2],
                         !.last_player_action = g.this_round_player_choice,
                         !.last_computer_action = g.this_round_comp_choice,
                         !.rounds_played = @ + 1,
                         !.scored = @ + 1,
                         !.current_game_state = TE_STATE_SHOW_ROUND_RESULT])
    ELSE IF g.current_game_state = TE_STATE_SHOW_ROUND_RESULT
    THEN IF click
         THEN TE_UpdateDisplay(
                [g EXCEPT !.current_game_state = IF TE_RoundsDone(g)
                                                 THEN TE_STATE_GAME_OVER
                                                 ELSE TE_STATE_PLAYER_CHOICE])
         ELSE g
    ELSE IF click THEN [g EXCEPT !.ret = "GAME_ENDED_TE"] ELSE g

\* main.py, STATE_GAME_TE_RUNNING: one tick
TE_GameLoopTick ==
    /\ te.running
    /\ \E direction \in Directions, click \in BOOLEAN, comp \in {"C", "D"} :
          LET g == TE_Tick(te, direction, click, comp)
          IN  te' = IF g.ret = "GAME_ENDED_TE" THEN NoGame ELSE g
    /\ UNCHANGED <<now, step, clickVars, dirVars, menuVars, dispVars, ps, au>>

(***************************************************************************)
(* game_points_showdown.py.  The Q-table of the machine is not modelled:   *)
(* its entries are random floats, so the greedy choice as well as the      *)
(* exploring one can be any valid action, and the action is an input of    *)
(* the tick.  The inputs offered are the lowest and the highest valid      *)
(* action; the player moves the stick left or right (steps of 5).          *)
(***************************************************************************)
PS_TOTAL_ROUNDS == 5
INITIAL_POINTS == 50
PS_STATE_INIT == 0
PS_STATE_PLAYER_BET == 1
PS_STATE_MACHINE_BET == 2
PS_STATE_SHOW_RESULT == 3
PS_STATE_GAME_OVER == 4
PS_Directions == {"center", "left", "right"}

\* _update_display: the screen of the current state and the bet it shows
PS_UpdateDisplay(g) ==
    [g EXCEPT !.shown = [state |-> g.current_game_state,
                         bet |-> IF g.current_game_state = PS_STATE_PLAYER_BET
                                 THEN g.current_bet_selection ELSE 0]]

\* GamePointsShowdown.__init__ with its QLearningAgent(INITIAL_POINTS):
\* remaining_points and round are the agent's fields
PS_Constructed ==
    [running |-> FALSE, ret |-> "None", raised |-> FALSE,
     current_game_state |-> PS_STATE_INIT,
     player_points |-> INITIAL_POINTS, remaining_points |-> INITIAL_POINTS, round |-> 0,
     player_score |-> 0, machine_score |-> 0, current_round |-> 0, player_last_bet |-> 3,
     player_bet |-> 0, machine_bet |-> 0, round_result |-> "",
     current_bet_selection |-> 0, max_bet |-> INITIAL_POINTS,
     shown |-> [state |-> -1, bet |-> 0]]

\* main.py, STATE_GAME_PS_INIT: a new instance, start_game, then RUNNING
PS_StartGame ==
    /\ ~ps.running /\ ~ps.raised
    /\ ps' = PS_UpdateDisplay([PS_Constructed EXCEPT !.running = TRUE])
    /\ UNCHANGED <<now, step, clickVars, dirVars, menuVars, dispVars, te, au>>

\* choose_action, line 257: range(1, min(remaining_points, 25) + 1)
valid_actions(remaining_points) == 1 .. Min(remaining_points, 25)

\* choose_action: the outcomes it can have.  On an empty range the random
\* choice of line 260 raises IndexError and the loop of lines 265-268 leaves
\* best_action = 1 (line 264)
PS_ChooseAction(remaining_points) ==
    LET va == valid_actions(remaining_points)
        Chosen(a) == [raises |-> FALSE, action |-> a]
    IN  IF va = {} THEN {[raises |-> TRUE, action |-> 0], Chosen(1)}
        ELSE {Chosen(CHOOSE a \in va : \A b \in va : a <= b),
              Chosen(CHOOSE a \in va : \A b \in va : a >= b)}

\* make_decision after self.round += 1: the bet for the action drawn
PS_MakeDecision(round, remaining_points, action) ==
    IF 5 - round = 0 /\ remaining_points > 1
    THEN remaining_points
    ELSE LET remaining_rounds == 5 - round
             reserve == Max(0, remaining_rounds - 1)
         IN  Max(1, Min(action, remaining_points - reserve))

\* whether make_decision reaches choose_action
PS_Chooses(round, remaining_points) == ~(5 - round = 0 /\ remaining_points > 1)

\* _handle_player_bet_input, lines 146-157: the selection after the direction
PS_Selection(g, direction) ==
    IF direction = "up" THEN Min(g.current_bet_selection + 1, g.max_bet)
    ELSE IF direction = "down" THEN Max(g.current_bet_selection - 1, 0)
    ELSE IF direction = "right" THEN Min(g.current_bet_selection + 5, g.max_bet)
    ELSE IF direction = "left" THEN Max(g.current_bet_selection - 5, 0)
    ELSE g.current_bet_selection

\* game_loop_tick in STATE_PLAYER_BET: the player's input, and on a click the
\* bets of both sides and the score of the round
PS_BetTick(g, direction, click, chosen) ==
    LET g1 == IF direction = "center" THEN g
              ELSE PS_UpdateDisplay([g EXCEPT !.current_bet_selection = PS_Selection(g, direction)])
        g2 == [g1 EXCEPT !.player_bet = g1.current_bet_selection,
                         !.player_points = @ - g1.current_bet_selection,
                         !.round = @ + 1]
        bet == PS_MakeDecision(g2.round, g2.remaining_points, chosen.action)
    IN  IF ~click THEN g1
        ELSE IF PS_Chooses(g2.round, g2.remaining_points) /\ chosen.raises
        THEN [g2 EXCEPT !.raised = TRUE]
        ELSE PS_UpdateDisplay(
               [g2 EXCEPT !.machine_bet = bet,
                          !.remaining_points = @ - bet,
                          !.player_score = IF g2.player_bet > bet THEN @ + 1 ELSE @,
                          !.machine_score = IF bet > g2.player_bet THEN @ + 1 ELSE @,
                          !.round_result = IF g2.player_bet > bet THEN "You win this round!"
                                           ELSE IF bet > g2.player_bet
                                           THEN "Machine wins this round!"
                                           ELSE "It's a tie!",
                          !.player_last_bet = g2.player_bet,
                          !.current_round = @ + 1,
                          !.current_game_state = PS_STATE_MACHINE_BET])

\* the entry to STATE_PLAYER_BET, lines 170-173 and 212-215
PS_EnterBet(g) ==
    PS_UpdateDisplay([g EXCEPT !.current_game_state = PS_STATE_PLAYER_BET,
                               !.max_bet = g.player_points,
                               !.current_bet_selection = Min(5, g.player_points)])

\* game_loop_tick
PS_Tick(g, direction, click, chosen) ==
    IF g.current_game_state = PS_STATE_INIT
    THEN IF click THEN PS_EnterBet(g) ELSE g
    ELSE IF g.current_game_state = PS_STATE_PLAYER_BET
    THEN PS_BetTick(g, direction, click, chosen)
    ELSE IF g.current_game_state = PS_STATE_MACHINE_BET
    THEN IF click
         THEN PS_UpdateDisplay(
                [g EXCEPT !.current_game_state = IF g.current_round >= PS_TOTAL_ROUNDS
                                                 THEN PS_STATE_GAME_OVER
                                                 ELSE PS_STATE_SHOW_RESULT])
         ELSE g
    ELSE IF g.current_game_state = PS_STATE_SHOW_RESULT
    THEN IF click THEN PS_EnterBet(g) ELSE g
    ELSE IF click THEN [g EXCEPT !.ret = "GAME_ENDED_PS"] ELSE g

\* main.py, STATE_GAME_PS_RUNNING: one tick
PS_GameLoopTick ==
    /\ ps.running
    /\ \E direction \in PS_Directions, click \in BOOLEAN :
         \E chosen \in PS_ChooseAction(ps.remaining_points) :
            LET g == PS_Tick(ps, direction, click, chosen)
            IN  ps' = IF g.ret = "GAME_ENDED_PS" THEN NoGame
                      ELSE IF g.raised THEN [g EXCEPT !.running = FALSE] ELSE g
    /\ UNCHANGED <<now, step, clickVars, dirVars, menuVars, dispVars, te, au>>

(***************************************************************************)
(* game_auction.py.  Players are numbered as in self.players: 0 the human, *)
(* 1 and 2 the AIs.  An item is its index in ITEMS; a player's items are a *)
(* sequence of items.  highest_bidder None is NoBidder.  The inputs of a   *)
(* tick are the stick direction, the click, and for an AI turn whether     *)
(* random.random() < 0.7 and the bid_increase drawn.                       *)
(***************************************************************************)
INITIAL_CASH == 100
ITEMS_PER_PLAYER == 2
AU_TOTAL_ROUNDS == 2
AU_STATE_INIT == 0
AU_STATE_PLAYER_SELECT == 1
AU_STATE_ITEM_CONFIRM == 2
AU_STATE_AUCTION == 3
AU_STATE_BID_CONFIRM == 4
AU_STATE_ROUND_RESULT == 5
AU_STATE_GAME_OVER == 6
ITEMS ==
    << [name |-> "Apple", value |-> 8, est |-> <<5, 10>>],
       [name |-> "Banana", value |-> 6, est |-> <<4, 8>>],
       [name |-> "Orange", value |-> 7, est |-> <<5, 9>>],
       [name |-> "Grape", value |-> 10, est |-> <<8, 12>>],
       [name |-> "Melon", value |-> 15, est |-> <<12, 18>>],
       [name |-> "Pineapple", value |-> 12, est |-> <<10, 14>>],
       [name |-> "Strawberry", value |-> 9, est |-> <<7, 11>>],
       [name |-> "Blueberry", value |-> 11, est |-> <<9, 13>>] >>
NumPlayers == 3
is_ai(idx) == idx # 0
NoBidder == -1
NoItem == 0

\* the order of ITEMS that shuffle leaves in the runs modelled: every j it
\* draws is i, the list stays as it is
Shuffles == { <<1, 2, 3, 4, 5, 6, 7, 8>> }

\* _reset_game, lines 80-83: each player in turn pops ITEMS_PER_PLAYER items
\* off the end of the shuffled list
Dealt(available_items) ==
    [p \in 1 .. NumPlayers |->
        [k \in 1 .. ITEMS_PER_PLAYER |->
            available_items[Len(available_items) - ((p - 1) * ITEMS_PER_PLAYER + k) + 1]]]

ItemsValue(its) == SumSeq([k \in 1 .. Len(its) |-> ITEMS[its[k]].value])

\* _total_assets
total_assets(cash, its) == cash + ItemsValue(its)

\* _reset_game, lines 85-89: the cash that makes every player's assets the
\* floor of the average
BalancedCash(items) ==
    LET assets == [p \in 1 .. NumPlayers |-> total_assets(INITIAL_CASH, items[p])]
        avg_assets == SumSeq(assets) \div NumPlayers
    IN  [p \in 1 .. NumPlayers |-> INITIAL_CASH + (avg_assets - assets[p])]

\* _update_display: the screen of the current state
AU_UpdateDisplay(g) ==
    [g EXCEPT !.shown = [state |-> g.current_game_state, bid |-> g.current_bid]]

\* AuctionGame.__init__ ; auctions counts the auctions begun since start_game,
\* moves the moves of the selection in the item lists, standing is current_bid
\* as it was when the turn of the current bidder began
AU_Constructed ==
    [running |-> FALSE, ret |-> "None", raised |-> FALSE,
     current_game_state |-> AU_STATE_INIT,
     cash |-> [p \in 1 .. NumPlayers |-> INITIAL_CASH],
     items |-> [p \in 1 .. NumPlayers |-> <<>>],
     current_round |-> 0, current_player_idx |-> 0, current_bidder_idx |-> 0,
     selected_item_idx |-> 0, auction_item |-> NoItem, current_bid |-> 0,
     highest_bidder |-> NoBidder, passes |-> 0,
     shown |-> [state |-> -1, bid |-> 0], auctions |-> 0, standing |-> 0, moves |-> 0]

\* main.py, STATE_GAME_AUCTION_INIT: a new instance, start_game, then RUNNING
AU_StartGame ==
    /\ ~au.running /\ ~au.raised
    /\ \E sh \in Shuffles :
          au' = AU_UpdateDisplay([AU_Constructed EXCEPT !.running = TRUE,
                                                        !.items = Dealt(sh),
                                                        !.cash = BalancedCash(Dealt(sh))])
    /\ UNCHANGED <<now, step, clickVars, dirVars, menuVars, dispVars, te, ps>>

\* _ai_bid: bids is random.random() < 0.7, bid_increase is random.randint(1, 5)
ai_bid(g, player_idx, bids, bid_increase) ==
    LET cash == g.cash[player_idx + 1]
        est == ITEMS[g.auction_item].est
        est_value == (est[1] + est[2]) \div 2
        max_bid == Min((est_value * 12) \div 10, cash)
    IN  IF ~(cash > g.current_bid) THEN g.current_bid
        ELSE IF bids THEN Min(g.current_bid + bid_increase, max_bid)
        ELSE g.current_bid

\* _next_player
next_player(g) ==
    LET idx == (g.current_player_idx + 1) % NumPlayers
        g1 == [g EXCEPT !.current_player_idx = idx]
    IN  IF idx # 0 THEN g1
        ELSE IF g.current_round + 1 >= AU_TOTAL_ROUNDS
        THEN [g1 EXCEPT !.current_round = @ + 1, !.current_game_state = AU_STATE_GAME_OVER]
        ELSE [g1 EXCEPT !.current_round = @ + 1]

\* _end_auction
end_auction(g) ==
    LET seller == g.current_player_idx + 1
        winner == g.highest_bidder + 1
        paid == [g.cash EXCEPT ![winner] = @ - g.current_bid]
        g1 == IF g.highest_bidder # NoBidder /\ g.highest_bidder >= 0
              THEN [g EXCEPT !.cash = [paid EXCEPT ![seller] = @ + g.current_bid],
                             !.items[winner] = Append(@, g.auction_item)]
              ELSE [g EXCEPT !.items[seller] = Append(@, g.auction_item)]
    IN  AU_UpdateDisplay([g1 EXCEPT !.current_game_state = AU_STATE_ROUND_RESULT])

\* list.pop(i)
Pop(s, i) == [k \in 1 .. (Len(s) - 1) |-> IF k <= i THEN s[k] ELSE s[k + 1]]

\* game_loop_tick, STATE_PLAYER_SELECT; x % 0 raises ZeroDivisionError
AU_SelectTick(g, direction, click) ==
    LET item_count == Len(g.items[g.current_player_idx + 1])
    IN  IF direction \in {"up", "down"}
        THEN IF item_count = 0 THEN [g EXCEPT !.raised = TRUE]
             ELSE AU_UpdateDisplay(
                    [g EXCEPT !.selected_item_idx =
                                 IF direction = "up" THEN (@ - 1) % item_count
                                 ELSE (@ + 1) % item_count])
        ELSE IF click /\ item_count > 0
        THEN AU_UpdateDisplay([g EXCEPT !.current_game_state = AU_STATE_ITEM_CONFIRM])
        ELSE IF click /\ item_count = 0
        THEN AU_UpdateDisplay(next_player(g))
        ELSE g

\* game_loop_tick, STATE_ITEM_CONFIRM
AU_ItemConfirmTick(g, direction, click) ==
    LET seller == g.current_player_idx + 1
    IN  IF click
        THEN AU_UpdateDisplay(
               [g EXCEPT !.auction_item = g.items[seller][g.selected_item_idx + 1],
                         !.items[seller] = Pop(@, g.selected_item_idx),
                         !.current_bid = 0,
                         !.highest_bidder = NoBidder,
                         !.passes = 0,
                         !.current_bidder_idx = (g.current_player_idx + 1) % NumPlayers,
                         !.current_game_state = AU_STATE_AUCTION,
                         !.auctions = @ + 1,
                         !.standing = 0])
        ELSE IF direction \in {"left", "right"}
        THEN AU_UpdateDisplay([g EXCEPT !.current_game_state = AU_STATE_PLAYER_SELECT])
        ELSE g

\* whether a bid of new_bid by an AI is taken as a raise, line 331
AiBidAccepted(new_bid, current_bid) == new_bid > current_bid

\* whether the bid the human confirms is taken as a raise, line 374
HumanBidAccepted(current_bid, highest_bidder) ==
    current_bid > (IF highest_bidder = NoBidder THEN current_bid ELSE 0)

\* game_loop_tick, STATE_AUCTION
AU_AuctionTick(g, direction, click, bids, bid_increase) ==
    LET bidder == g.current_bidder_idx
        cash == g.cash[bidder + 1]
        new_bid == ai_bid(g, bidder, bids, bid_increase)
        g1 == IF AiBidAccepted(new_bid, g.current_bid)
              THEN [g EXCEPT !.current_bid = new_bid, !.highest_bidder = bidder, !.passes = 0]
              ELSE [g EXCEPT !.passes = @ + 1]
        g2 == AU_UpdateDisplay([g1 EXCEPT !.current_bidder_idx = (bidder + 1) % NumPlayers,
                                          !.standing = g1.current_bid])
    IN  IF is_ai(bidder)
        THEN IF g2.passes >= NumPlayers - 1 THEN end_auction(g2) ELSE g2
        ELSE IF direction = "up"
        THEN AU_UpdateDisplay([g EXCEPT !.current_bid = Min(@ + 1, cash)])
        ELSE IF direction = "down"
        THEN AU_UpdateDisplay([g EXCEPT !.current_bid = Max(@ - 1, 0)])
        ELSE IF direction = "right"
        THEN AU_UpdateDisplay([g EXCEPT !.current_bid = Min(@ + 5, cash)])
        ELSE IF direction = "left"
        THEN AU_UpdateDisplay([g EXCEPT !.current_bid = Max(@ - 5, 0)])
        ELSE IF click
        THEN AU_UpdateDisplay([g EXCEPT !.current_game_state = AU_STATE_BID_CONFIRM])
        ELSE g

\* game_loop_tick, STATE_BID_CONFIRM
AU_BidConfirmTick(g, direction, click) ==
    LET g1 == IF HumanBidAccepted(g.current_bid, g.highest_bidder)
              THEN [g EXCEPT !.highest_bidder = g.current_bidder_idx, !.passes = 0]
              ELSE [g EXCEPT !.passes = @ + 1]
        g2 == IF click
              THEN AU_UpdateDisplay(
                     [g1 EXCEPT !.current_bidder_idx = (g.current_bidder_idx + 1) % NumPlayers,
                                !.current_game_state = AU_STATE_AUCTION,
                                !.standing = g.current_bid])
              ELSE IF direction \in {"left", "right"}
              THEN AU_UpdateDisplay([g EXCEPT !.current_game_state = AU_STATE_AUCTION])
              ELSE g
    IN  IF g2.passes >= NumPlayers - 1 THEN end_auction(g2) ELSE g2

\* game_loop_tick
AU_Tick(g, direction, click, bids, bid_increase) ==
    IF g.current_game_state = AU_STATE_INIT
    THEN IF click
         THEN AU_UpdateDisplay([g EXCEPT !.current_game_state = AU_STATE_PLAYER_SELECT])
         ELSE g
    ELSE IF g.current_game_state = AU_STATE_PLAYER_SELECT
    THEN AU_SelectTick(g, direction, click)
    ELSE IF g.current_game_state = AU_STATE_ITEM_CONFIRM
    THEN AU_ItemConfirmTick(g, direction, click)
    ELSE IF g.current_game_state = AU_STATE_AUCTION
    THEN AU_AuctionTick(g, direction, click, bids, bid_increase)
    ELSE IF g.current_game_state = AU_STATE_BID_CONFIRM
    THEN AU_BidConfirmTick(g, direction, click)
    ELSE IF g.current_game_state = AU_STATE_ROUND_RESULT
    THEN IF click
         THEN LET g1 == [next_player(g) EXCEPT !.selected_item_idx = 0]
              IN  AU_UpdateDisplay(
                    IF g1.current_game_state # AU_STATE_GAME_OVER
                    THEN [g1 EXCEPT !.current_game_state = AU_STATE_PLAYER_SELECT]
                    ELSE g1)
         ELSE g
    ELSE IF click THEN [g EXCEPT !.ret = "GAME_ENDED_AUCTION"] ELSE g

\* whether the tick is the turn of an AI bidder
AiTurn(g) == g.current_game_state = AU_STATE_AUCTION /\ is_ai(g.current_bidder_idx)

\* the inputs a tick reads: get_direction is called in the states that use
\* the stick (in STATE_AUCTION on the human's turn only), _ai_bid on the turn
\* of an AI.  The human moves the bid in steps of 5; an AI that bids raises
\* by the largest increase.
AU_Directions(g) ==
    IF g.current_game_state \in {AU_STATE_PLAYER_SELECT, AU_STATE_ITEM_CONFIRM}
    THEN Directions
    ELSE IF g.current_game_state = AU_STATE_BID_CONFIRM
            \/ (g.current_game_state = AU_STATE_AUCTION /\ ~AiTurn(g))
    THEN {"center", "left", "right"}
    ELSE {"center"}
AU_Clicks(g) == IF AiTurn(g) THEN {FALSE} ELSE BOOLEAN
AU_Bids(g) == IF AiTurn(g) THEN BOOLEAN ELSE {FALSE}
BidIncreases == {5}
SelectMove(g, direction) ==
    g.current_game_state = AU_STATE_PLAYER_SELECT /\ direction \in {"up", "down"}

\* main.py, STATE_GAME_AUCTION_RUNNING: one tick.  At most MaxAuctions auctions
\* are begun in one run and the selection is moved at most MaxSelectMoves times.
AU_GameLoopTick ==
    /\ au.running
    /\ \E direction \in AU_Directions(au), click \in AU_Clicks(au), bids \in AU_Bids(au),
          bid_increase \in BidIncreases :
          /\ (au.current_game_state = AU_STATE_ITEM_CONFIRM /\ click) =>
                au.auctions < MaxAuctions
          /\ SelectMove(au, direction) => au.moves < MaxSelectMoves
          /\ LET g == AU_Tick(au, direction, click, bids, bid_increase)
                 g1 == IF SelectMove(au, direction) THEN [g EXCEPT !.moves = @ + 1] ELSE g
             IN  au' = IF g1.ret = "GAME_ENDED_AUCTION" THEN NoGame
                       ELSE IF g1.raised THEN [g1 EXCEPT !.running = FALSE] ELSE g1
    /\ UNCHANGED <<now, step, clickVars, dirVars, menuVars, dispVars, te, ps>>


InitGamesIdle == te = NoGame /\ ps = NoGame /\ au = NoGame

(***************************************************************************)
(* Claims about the trust game (checked under SpecTrust).                  *)
(***************************************************************************)
\* C39: the game is over only when exactly TOTAL_ROUNDS (10) rounds have
\* been scored, and rounds_played never exceeds TOTAL_ROUNDS.
C39_GameOverAfterAllRounds ==
    te.running =>
        /\ te.rounds_played <= TE_TOTAL_ROUNDS
        /\ te.current_game_state = TE_STATE_GAME_OVER =>
              te.scored = TE_TOTAL_ROUNDS /\ te.rounds_played = TE_TOTAL_ROUNDS

(***************************************************************************)
(* Claims about the points showdown (checked under SpecPoints).            *)
(***************************************************************************)
\* C36: neither the player's points nor the machine's remaining points are
\* ever negative: each side's bet is at most the points that side holds
\* when the bet is placed.
C36_PointsNeverNegative ==
    ps.running =>
        /\ ps.player_points >= 0
        /\ ps.remaining_points >= 0

(***************************************************************************)
(* Claims about the auction game (checked under SpecAuction).              *)
(***************************************************************************)
\* C37: no player's cash is ever negative: the price a winner pays is at
\* most the cash the winner holds when the auction ends.
C37_CashNeverNegative ==
    au.running => \A p \in 1 .. NumPlayers : au.cash[p] >= 0

\* a tick inside one auction, and one that ends the turn of a bidder
AuctionStep ==
    /\ au.running /\ au'.running
    /\ au.current_game_state \in {AU_STATE_AUCTION, AU_STATE_BID_CONFIRM}
    /\ au'.auctions = au.auctions
TurnEnds == AuctionStep /\ au'.current_bidder_idx # au.current_bidder_idx

\* during one auction the standing bid never decreases
BidNeverDecreases == AuctionStep => au'.current_bid >= au.current_bid
\* the highest bidder changes only to the bidder whose turn ends with a bid
\* above the bid that stood when the turn began
HighestChangesOnRaise ==
    (AuctionStep /\ au'.highest_bidder # au.highest_bidder) =>
        /\ TurnEnds
        /\ au'.highest_bidder = au.current_bidder_idx
        /\ au'.current_bid > au.standing
\* the bid a turn ends with was placed in it: the human confirms an amount,
\* an AI bids when it raises
BidPlaced ==
    /\ TurnEnds
    /\ au'.current_bid > 0
    /\ is_ai(au.current_bidder_idx) => au'.current_bid > au.current_bid
\* the first bid above zero makes its bidder the highest bidder
FirstBidTaken ==
    (BidPlaced /\ au.highest_bidder = NoBidder) => au'.highest_bidder = au.current_bidder_idx
\* a turn that ends without a raise is a pass
NoRaiseIsPass ==
    (TurnEnds /\ au'.current_bid <= au.standing) =>
        /\ au'.passes = au.passes + 1
        /\ au'.highest_bidder = au.highest_bidder

\* C38: the highest bidder changes only when a bid strictly greater than the
\* standing bid is placed: during one auction the standing bid never
\* decreases, a first bid greater than zero by any player makes that player
\* the highest bidder, and a player who confirms without raising the
\* standing bid is counted as a pass.
C38_BiddingRules ==
    [][BidNeverDecreases /\ HighestChangesOnRaise /\ FirstBidTaken /\ NoRaiseIsPass]_vars

InitClock == now = 0 /\ step \in Steps
InitClick == InitClock /\ InitButton /\ InitStick /\ InitGamesIdle /\ InitMenuIdle /\ InitDispIdle
NextClick == Tick \/ Flip \/ CheckForSingleClick
SpecClick == InitClick /\ [][NextClick]_vars

InitDown == now = 0 /\ step = 50 /\ InitButton /\ InitStick /\ InitGamesIdle /\ InitMenuIdle /\ InitDispIdle
NextDown == Tick \/ Flip \/ CheckForSingleClickPair \/ IsButtonDown
SpecDown == InitDown /\ [][NextDown]_vars

\* the repeat delay (150 ms) is a multiple of the 50 ms grid of this specification
DirSteps == {50}
InitDir == now = 0 /\ step \in DirSteps /\ InitButton /\ btn = 1 /\ InitStick /\ InitGamesIdle /\ InitMenuIdle
           /\ InitDispIdle
NextDir == Tick \/ MoveStick \/ GetDirection(FALSE) \/ GetDirection(TRUE)
SpecDir == InitDir /\ [][NextDir]_vars

InitCal == now = 0 /\ step = 50 /\ InitButton /\ btn = 1 /\ InitStick /\ InitGamesIdle /\ InitMenuIdle
           /\ InitDispIdle
NextCal == Calibrate \/ GetDirection(FALSE) \/ GetDirection(TRUE)
SpecCal == InitCal /\ [][NextCal]_vars

InitMenu == now = 0 /\ step = 25 /\ InitButton /\ btn = 1 /\ InitStick /\ InitGamesIdle /\ InitMenuIdle /\ InitDispIdle
NextMenu == DrawMenuCall
SpecMenu == InitMenu /\ [][NextMenu]_vars

InitFill == now = 0 /\ step = 25 /\ InitButton /\ btn = 1 /\ InitStick /\ InitGamesIdle /\ InitMenuIdle
            /\ rotation \in 0 .. 3 /\ bus = <<>> /\ winCalls = <<>> /\ rectArgs = None /\ fault = None
            /\ pins = MainPins /\ pc = Len(InitProgram(MainPins, rotation)) /\ oversleep = 0
            /\ wire = <<>> /\ opArgs = None
NextFill == FillRect
SpecFill == InitFill /\ [][NextFill]_vars

InitFault == now = 0 /\ step = 25 /\ InitButton /\ btn = 1 /\ InitStick /\ InitGamesIdle /\ InitMenuIdle
             /\ InitDispIdle
NextFault == FillRectFaulty
SpecFault == InitFault /\ [][NextFault]_vars

\* construction of the driver, for every choice of pins and rotation
InitConstruct == now = 0 /\ step = 25 /\ InitButton /\ btn = 1 /\ InitStick /\ InitGamesIdle /\ InitMenuIdle
                 /\ rotation \in 0 .. 3 /\ bus = <<>> /\ winCalls = <<>> /\ rectArgs = None /\ fault = None
                 /\ pins \in PinChoices /\ pc = 0 /\ oversleep \in {0, MaxOversleep}
                 /\ wire = <<>> /\ opArgs = None
NextConstruct == DrivePin \/ SleepMs \/ BusWrite
SpecConstruct == InitConstruct /\ [][NextConstruct]_vars

\* drawing on a constructed driver, with and without dc and cs pins
InitDraw == now = 0 /\ step = 25 /\ InitButton /\ btn = 1 /\ InitStick /\ InitGamesIdle /\ InitMenuIdle
            /\ rotation \in 0 .. 3 /\ bus = <<>> /\ winCalls = <<>> /\ rectArgs = None /\ fault = None
            /\ pins \in {p \in PinChoices : p.reset /\ p.backlight}
            /\ pc = Len(InitProgram(pins, rotation)) /\ oversleep = 0
            /\ wire = <<>> /\ opArgs = None
NextDraw == Pixel \/ SetWindowCall
SpecDraw == InitDraw /\ [][NextDraw]_vars

\* text drawn on the driver as main.py constructs it
InitText == now = 0 /\ step = 25 /\ InitButton /\ btn = 1 /\ InitStick /\ InitGamesIdle /\ InitMenuIdle
            /\ rotation \in {0, 1} /\ bus = <<>> /\ winCalls = <<>> /\ rectArgs = None /\ fault = None
            /\ InitDriverIdle
NextText == Text
SpecText == InitText /\ [][NextText]_vars

\* a text line drawn on the driver as main.py constructs it
InitLine == now = 0 /\ step = 25 /\ InitButton /\ btn = 1 /\ InitStick /\ InitGamesIdle /\ InitMenuIdle
            /\ InitDispIdle
NextLine == DisplayTextLine
SpecLine == InitLine /\ [][NextLine]_vars

InitUI == now = 0 /\ step = 25 /\ InitButton /\ btn = 1 /\ InitStick /\ InitGamesIdle /\ InitMenuIdle
          /\ InitDispIdle
NextUI == ClearScreen \/ DisplayTextLine \/ DisplayTextMultiline \/ ShowMessageBox
          \/ ShowWelcomeScreen
SpecUI == InitUI /\ [][NextUI]_vars

InitTrust == now = 0 /\ step = 25 /\ InitButton /\ btn = 1 /\ InitStick /\ InitGamesIdle
             /\ InitMenuIdle /\ InitDispIdle
NextTrust == TE_StartGame \/ TE_GameLoopTick
SpecTrust == InitTrust /\ [][NextTrust]_vars

InitPoints == now = 0 /\ step = 25 /\ InitButton /\ btn = 1 /\ InitStick /\ InitGamesIdle
              /\ InitMenuIdle /\ InitDispIdle
NextPoints == PS_StartGame \/ PS_GameLoopTick
SpecPoints == InitPoints /\ [][NextPoints]_vars

InitAuction == now = 0 /\ step = 25 /\ InitButton /\ btn = 1 /\ InitStick /\ InitGamesIdle
               /\ InitMenuIdle /\ InitDispIdle
NextAuction == AU_StartGame \/ AU_GameLoopTick
SpecAuction == InitAuction /\ [][NextAuction]_vars
====
